---- MODULE Spec2Model ----
(***************************************************************************)
(* The image-generation client of src/services/geminiService.ts:           *)
(* QuantumAI.parseImage and QuantumAI.requestAndPoll (one initial POST,    *)
(* then a bounded polling loop against the fetch_result URL).              *)
(*                                                                         *)
(* JavaScript values are modelled as follows.  A string is a TLA+ string;  *)
(* the value undefined (an absent field) is the token Undefined.  A JSON   *)
(* body is a record with one field per property the code reads; the        *)
(* fields are typed as in the SDResponse type (strings and arrays).  An    *)
(* array property is a record [isArray, items]; an absent array property   *)
(* is NoArr.  The JSON value null is the body NullBody.                    *)
(***************************************************************************)
EXTENDS Integers, Sequences, FiniteSets, TLC

VARIABLES
    pc,           \* position of the call inside requestAndPoll
    initialData,  \* line 70
    lastData,     \* line 84 / 110
    image,        \* line 78 / 120
    attempt,      \* loop counter of line 86
    polls,        \* number of poll POSTs sent so far (line 94)
    initialRes,   \* the HTTP response to the initial POST (line 59)
    pollLog,      \* the HTTP responses to the poll POSTs, in order (line 94)
    result,       \* the value returned (line 139)
    error,        \* the error thrown
    events,       \* what the call has done on the network and the timer, in order
    pollRequests, \* the poll POSTs handed to fetch, in order (lines 94-104)
    calls,        \* the locals of each of several concurrent calls
    parseArg,     \* argument of a stand-alone parseImage application
    parseRet,     \* its return value
    parseDone,    \* whether it has been applied
    env,          \* import.meta.env: the VITE_SD_* variables (lines 8-23)
    args,         \* arguments of generateQuantumManifestation (lines 142-147)
    request,      \* the initial POST it hands to fetch (lines 50-63, 151-179)
    built,        \* whether the request has been built
    mounted,              \* whether the effects of the first render have run
    isStarted,            \* App state, src/unnamed/part_000 lines 56-76
    selectedAtom,
    selectedEntity,
    waveParams,
    isSubscribed,
    usageCount,
    showPaywall,
    isProcessingPayment,
    selfieData,
    selfieConsent,
    selfieUrl,
    pendingAutoCollapse,  \* pendingAutoCollapseRef.current
    state,                \* the QuantumState
    handleCollapse,       \* the values the memoized handleCollapse has captured
    localStorage,         \* the keys quantum_usage and quantum_subscribed
    readers,              \* the files a FileReader is still reading
    generating,           \* the generation calls in flight: their arguments and
                          \* the App state at the moment they were started
    dropped               \* the base image the latest successful generation used

vars == <<pc, initialData, lastData, image, attempt, polls, initialRes,
          pollLog, result, error, events, pollRequests,
          parseArg, parseRet, parseDone,
          env, args, request, built, calls, mounted,
          isStarted, selectedAtom, selectedEntity, waveParams, isSubscribed,
          usageCount, showPaywall, isProcessingPayment, selfieData,
          selfieConsent, selfieUrl, pendingAutoCollapse, state, handleCollapse,
          localStorage, readers, generating, dropped>>

clientVars == <<pc, initialData, lastData, image, attempt, polls, initialRes,
                pollLog, result, error, events, pollRequests>>

parseVars == <<parseArg, parseRet, parseDone>>

requestVars == <<env, args, request, built>>

concurrentVars == <<calls>>

appVars == <<mounted, isStarted, selectedAtom, selectedEntity, waveParams, isSubscribed,
             usageCount, showPaywall, isProcessingPayment, selfieData,
             selfieConsent, selfieUrl, pendingAutoCollapse, state,
             handleCollapse, localStorage, readers, generating, dropped>>

-----------------------------------------------------------------------------
(* JavaScript values *)

Undefined == "<undefined>"

\* JavaScript truthiness of a string-or-undefined value.
Truthy(v) == v # Undefined /\ v # ""

\* a || b
Or(a, b) == IF Truthy(a) THEN a ELSE b

\* s.startsWith(p)
StartsWith(s, p) == Len(s) >= Len(p) /\ SubSeq(s, 1, Len(p)) = p

NoArr == [isArray |-> FALSE, items |-> <<>>]

Arr(s) == [isArray |-> TRUE, items |-> s]

\* arr?.[0]
At0(arr) == IF Len(arr.items) >= 1 THEN arr.items[1] ELSE Undefined

EmptyBody ==
    [isNull |-> FALSE, status |-> Undefined, error |-> Undefined,
     message |-> Undefined, error_log |-> Undefined,
     fetch_result |-> Undefined, id |-> Undefined,
     image |-> Undefined, images |-> NoArr, output |-> NoArr,
     artifacts |-> NoArr, data |-> NoArr]

NullBody == [EmptyBody EXCEPT !.isNull = TRUE]

Null == "<null>"

-----------------------------------------------------------------------------
(* The App component before anything happens (src/unnamed/part_000) *)

\* lines 70-76 and 168-176
InitialQuantumState ==
    [isCollapsing |-> FALSE, isCollapsed |-> FALSE, collapsedImage |-> Null,
     explanation |-> Null, error |-> Null]

\* What handleCollapse reads from the render that created it (lines 126-159).
Captured(atom, params, usage, subscribed, data, url) ==
    [selectedAtom |-> atom, waveParams |-> params, usageCount |-> usage,
     isSubscribed |-> subscribed, selfieData |-> data, selfieUrl |-> url]

\* lines 56-76: the useState initial values, nothing stored, nothing pending
AppIdle ==
    /\ mounted = FALSE
    /\ isStarted = FALSE
    /\ selectedAtom = "Hydrogen"
    /\ selectedEntity = "arctic fox"
    /\ waveParams = [wavelength |-> 100, amplitude |-> 100]
    /\ isSubscribed = FALSE
    /\ usageCount = 0
    /\ showPaywall = FALSE
    /\ isProcessingPayment = FALSE
    /\ selfieData = Null
    /\ selfieConsent = FALSE
    /\ selfieUrl = ""
    /\ pendingAutoCollapse = FALSE
    /\ state = InitialQuantumState
    /\ handleCollapse = Captured("Hydrogen", [wavelength |-> 100, amplitude |-> 100],
                                 0, FALSE, Null, "")
    /\ localStorage = [quantum_usage |-> Null, quantum_subscribed |-> Null]
    /\ readers = {}
    /\ generating = <<>>
    /\ dropped = Undefined

-----------------------------------------------------------------------------
(* parseImage *)

ArtifactsCandidate(d) ==
    IF d.artifacts.isArray
    THEN IF Len(d.artifacts.items) >= 1
         THEN d.artifacts.items[1].base64
         ELSE Undefined
    ELSE Undefined

DataCandidate(d) ==
    IF d.data.isArray
    THEN IF Len(d.data.items) >= 1
         THEN Or(d.data.items[1].b64_json, d.data.items[1].url)
         ELSE Undefined
    ELSE Undefined

parseImageSwapped(d) ==
    Or(Or(Or(Or(At0(d.images), d.image), At0(d.output)),
          ArtifactsCandidate(d)),
       DataCandidate(d))

parseImage(d) ==
    Or(Or(Or(Or(d.image, At0(d.images)), At0(d.output)),
          ArtifactsCandidate(d)),
       DataCandidate(d))

-----------------------------------------------------------------------------
(* requestAndPoll: constants, errors, and the conditions of its branches *)

maxAttempts == 6

delayMs == 5000

NoError == [name |-> "none", message |-> "", payload |-> EmptyBody]

\* new Error(message); payload is the value whose JSON.stringify(...).slice(0, 400)
\* the message ends with (EmptyBody when the message embeds no payload).
Err(name, message, payload) ==
    [name |-> name, message |-> message, payload |-> payload]

\* line 65: if (!response.ok)
InitialTransportFailureIgnored(r) == FALSE

InitialTransportFailure(r) == ~r.ok

\* line 72
InitialProviderErrorAfterImage(d) ==
    /\ d.status = "error" \/ d.status = "failed" \/ Truthy(d.error)
    /\ ~Truthy(parseImage(d))

InitialProviderError(d) ==
    d.status = "error" \/ d.status = "failed" \/ Truthy(d.error)

\* lines 73-75: the message of the initial provider error
InitialProviderMessage(d) ==
    LET msg    == Or(d.message, d.error)
        detail == d.error_log
    IN  IF Truthy(detail)
        THEN Or(msg, "Generation failed") \o " (" \o detail \o ")"
        ELSE Or(msg, "Stable Diffusion error")

EntersPollingWithoutUrl(img, d) == ~Truthy(img) /\ d.status = "processing"

\* line 80
EntersPolling(img, d) ==
    ~Truthy(img) /\ d.status = "processing" /\ Truthy(d.fetch_result)

\* line 86: attempt < maxAttempts && !image
LoopCondUnbounded(att, img) == ~Truthy(img)

LoopCondOffByOne(att, img) == att <= maxAttempts /\ ~Truthy(img)

LoopCondIgnoresImage(att, img) == att < maxAttempts

LoopCond(att, img) == att < maxAttempts /\ ~Truthy(img)

\* line 105: if (!pollRes.ok)
PollTransportFailureIgnored(r) == FALSE

PollTransportFailure(r) == ~r.ok

\* line 115
PollProviderErrorUnlessImage(d) ==
    (d.status = "error" \/ Truthy(d.error)) /\ ~Truthy(parseImage(d))

PollProviderError(d) == d.status = "error" \/ Truthy(d.error)

\* lines 116-117
PollProviderMessage(d) ==
    Or(Or(d.message, d.error), "Stable Diffusion polling error")

\* line 122
BreaksEarlyNever(d, img) == FALSE

BreaksEarly(d, img) == d.status # "processing" /\ ~Truthy(img)

\* lines 127 and 134: if (!image)
ThrowsNoImageNever(img) == FALSE

ThrowsNoImage(img) == ~Truthy(img)

\* lines 138-139
normalize(img) ==
    IF StartsWith(img, "http") THEN img ELSE "data:image/png;base64," \o img

\* Response.text() (lines 66, 106, 112): the body of a response can be read
\* once; reading a body already consumed rejects with a TypeError.
ResponseText(r, bodyUsed) ==
    IF bodyUsed
    THEN [rejected |-> TRUE,  value |-> Undefined]
    ELSE [rejected |-> FALSE, value |-> r.text]

BodyUsedError == Err("TypeError", "body stream already read", EmptyBody)

-----------------------------------------------------------------------------
(* Module configuration (lines 8-23), buildPrompt and the request that      *)
(* generateQuantumManifestation and requestAndPoll assemble                 *)

UpperCaseLetters == "ABCDEFGHIJKLMNOPQRSTUVWXYZ"

LowerCaseLetters == "abcdefghijklmnopqrstuvwxyz"

\* The character c (a string of length 1) mapped from one alphabet to another.
MapChar(c, from, to) ==
    IF \E i \in 1..Len(from) : SubSeq(from, i, i) = c
    THEN LET i == CHOOSE j \in 1..Len(from) : SubSeq(from, j, j) = c
         IN  SubSeq(to, i, i)
    ELSE c

RECURSIVE MapString(_, _, _)
MapString(s, from, to) ==
    IF s = "" THEN ""
    ELSE MapChar(SubSeq(s, 1, 1), from, to)
            \o MapString(SubSeq(s, 2, Len(s)), from, to)

\* s.toLowerCase()
ToLowerCase(s) == MapString(s, UpperCaseLetters, LowerCaseLetters)

\* s.includes(sub)
Includes(s, sub) ==
    \E i \in 1..(Len(s) - Len(sub) + 1) : SubSeq(s, i, i + Len(sub) - 1) = sub

\* Number(v) for the decimal strings used as VITE_SD_SAMPLES
Number(v) == CASE v = "1" -> 1 [] v = "2" -> 2 [] v = "4" -> 4 [] OTHER -> 0

\* lines 8-23
SD_API_BASE(e) == Or(e.VITE_SD_API_BASE_URL, "https://modelslab.com")

SD_ENDPOINT(e) ==
    IF Truthy(e.VITE_SD_ENDPOINT) THEN e.VITE_SD_ENDPOINT
    ELSE IF Includes(SD_API_BASE(e), "/api/") THEN SD_API_BASE(e)
    ELSE SD_API_BASE(e) \o "/api/v6/images/text2img"

SD_IMG2IMG_ENDPOINT(e) ==
    Or(e.VITE_SD_IMG2IMG_ENDPOINT, SD_API_BASE(e) \o "/api/v6/images/img2img")

SD_API_KEY(e) == Or(e.VITE_SD_API_KEY, "")

SD_API_KEY_HEADER(e) == Or(e.VITE_SD_API_KEY_HEADER, "")

SD_MODEL(e) == Or(e.VITE_SD_MODEL, "flux-2-dev")

SD_WIDTH(e) == Or(e.VITE_SD_WIDTH, "1024")

SD_HEIGHT(e) == Or(e.VITE_SD_HEIGHT, "1024")

SD_SAMPLES(e) ==
    IF Truthy(e.VITE_SD_SAMPLES) THEN Number(e.VITE_SD_SAMPLES) ELSE 1

\* lines 33-34; wavelength and amplitude are held in hundredths (1.5 is 150)
intensityInclusive(params) ==
    IF params.wavelength >= 150 THEN "intense"
    ELSE IF params.wavelength <= 80 THEN "subtle" ELSE "moderate"

intensity(params) ==
    IF params.wavelength > 150 THEN "intense"
    ELSE IF params.wavelength < 80 THEN "subtle" ELSE "moderate"

density(params) ==
    IF params.amplitude > 150 THEN "dense"
    ELSE IF params.amplitude < 80 THEN "sparse" ELSE "flowing"

\* lines 30-37
buildPrompt(atom, subject, params) ==
    "A " \o subject \o " materializing from " \o intensity(params)
      \o " quantum energy waves, " \o density(params)
      \o " streams of turquoise and emerald light converging around " \o atom
      \o " atoms. Set in a futuristic physics laboratory with holographic displays and volumetric lighting. Cinematic composition, ray-traced reflections, 8k ultra-detailed, atmospheric depth."

\* lines 159-160
NegativePrompt ==
    "blurry, low quality, watermark, text, logo, deformed, disfigured, bad anatomy, extra limbs, cropped, out of frame"

\* lines 50-57: the headers of the initial POST, a map from name to value
BaseHeaders ==
    [n \in {"Content-Type", "Accept"} |-> "application/json"]

CredentialValueCaseSensitive(header, key) ==
    IF header = "Authorization" THEN "Bearer " \o key ELSE key

\* lines 55-56
CredentialValue(header, key) ==
    IF ToLowerCase(header) = "authorization" THEN "Bearer " \o key ELSE key

Headers(e) ==
    IF Truthy(SD_API_KEY(e)) /\ Truthy(SD_API_KEY_HEADER(e))
    THEN [n \in DOMAIN BaseHeaders \cup {SD_API_KEY_HEADER(e)} |->
            IF n = SD_API_KEY_HEADER(e)
            THEN CredentialValue(SD_API_KEY_HEADER(e), SD_API_KEY(e))
            ELSE BaseHeaders[n]]
    ELSE BaseHeaders

\* lines 151-162
BasePayload(e, a, seed) ==
    [model_id |-> SD_MODEL(e),
     prompt |-> buildPrompt(a.atom, a.entity, a.params),
     width |-> SD_WIDTH(e),
     height |-> SD_HEIGHT(e),
     num_inference_steps |-> 30,
     samples |-> SD_SAMPLES(e),
     seed |-> seed,
     negative_prompt |-> NegativePrompt,
     key |-> SD_API_KEY(e),
     init_image |-> NoArr]

\* lines 166-169
InitImage(baseImage) ==
    IF StartsWith(baseImage, "http") \/ StartsWith(baseImage, "data:")
    THEN baseImage
    ELSE "data:image/png;base64," \o baseImage

\* line 165: if (baseImage)
UsesImg2ImgAlways(baseImage) == baseImage # Undefined

UsesImg2Img(baseImage) == Truthy(baseImage)

\* lines 164-179 with 50-63: the request handed to fetch
BuildRequest(e, a, seed) ==
    IF UsesImg2Img(a.baseImage)
    THEN [endpoint |-> SD_IMG2IMG_ENDPOINT(e),
          method |-> "POST",
          headers |-> Headers(e),
          body |-> [BasePayload(e, a, seed) EXCEPT
                       !.init_image = Arr(<<InitImage(a.baseImage)>>)]]
    ELSE [endpoint |-> SD_ENDPOINT(e),
          method |-> "POST",
          headers |-> Headers(e),
          body |-> BasePayload(e, a, seed)]

UnsetEnv ==
    [VITE_SD_API_BASE_URL |-> Undefined, VITE_SD_ENDPOINT |-> Undefined,
     VITE_SD_IMG2IMG_ENDPOINT |-> Undefined, VITE_SD_API_KEY |-> Undefined,
     VITE_SD_API_KEY_HEADER |-> Undefined, VITE_SD_MODEL |-> Undefined,
     VITE_SD_WIDTH |-> Undefined, VITE_SD_HEIGHT |-> Undefined,
     VITE_SD_SAMPLES |-> Undefined]

Envs ==
    { [UnsetEnv EXCEPT !.VITE_SD_API_BASE_URL = b, !.VITE_SD_ENDPOINT = t,
                       !.VITE_SD_IMG2IMG_ENDPOINT = i, !.VITE_SD_API_KEY = k,
                       !.VITE_SD_API_KEY_HEADER = h, !.VITE_SD_MODEL = m] :
        b \in {Undefined, "https://sd.example.com",
               "https://sd.example.com/api/v1/generate"},
        t \in {Undefined, "https://sd.example.com/custom/text2img"},
        i \in {Undefined, "https://sd.example.com/custom/img2img"},
        k \in {Undefined, "", "abc123"},
        h \in {Undefined, "", "Authorization", "authorization",
               "AUTHORIZATION", "X-API-KEY"},
        m \in {Undefined, "sdxl"} }
      \cup
    { [UnsetEnv EXCEPT !.VITE_SD_WIDTH = "512", !.VITE_SD_HEIGHT = "768",
                       !.VITE_SD_SAMPLES = "2"] }

AtomTypes == {"Hydrogen", "Helium", "Lithium", "Carbon", "Oxygen"}

\* The slider grid (min 0.5, max 2.5, step 0.05) in hundredths.
SliderValues == {50 + 5 * i : i \in 0..40}

BaseImages ==
    {Undefined, "", "https://u.example.com/selfie.png",
     "data:image/jpeg;base64,/9j/4AAQ", "iVBORw0KGgo", "httpZm9vYmFy"}

\* Math.floor(Math.random() * 10_000_000)
Seeds == {0, 4815162, 9999999}

NoRequest ==
    [endpoint |-> Undefined, method |-> Undefined, headers |-> BaseHeaders,
     body |-> BasePayload(UnsetEnv,
                 [atom |-> "Hydrogen", entity |-> "", baseImage |-> Undefined,
                  params |-> [wavelength |-> 100, amplitude |-> 100]], 0)]

DefaultArgs ==
    [atom |-> "Hydrogen", entity |-> "arctic fox", baseImage |-> Undefined,
     params |-> [wavelength |-> 100, amplitude |-> 100]]

RequestIdle ==
    /\ env = UnsetEnv
    /\ args = DefaultArgs
    /\ request = NoRequest
    /\ built = FALSE

RequestInit ==
    /\ env \in Envs
    /\ args \in { [atom |-> a, entity |-> "ethereal wolf", baseImage |-> b,
                   params |-> [wavelength |-> w, amplitude |-> 100]] :
                    a \in {"Hydrogen", "Oxygen"}, b \in BaseImages,
                    w \in {75, 100} }
    /\ request = NoRequest
    /\ built = FALSE

PromptInit ==
    /\ env = UnsetEnv
    /\ args \in { [atom |-> a, entity |-> "ethereal wolf", baseImage |-> Undefined,
                   params |-> [wavelength |-> w, amplitude |-> m]] :
                    a \in AtomTypes, w \in SliderValues, m \in SliderValues }
    /\ request = NoRequest
    /\ built = FALSE

\* generateQuantumManifestation up to the fetch call of line 59
SendRequest ==
    /\ ~built
    /\ \E seed \in Seeds : request' = BuildRequest(env, args, seed)
    /\ built' = TRUE
    /\ UNCHANGED <<env, args>>
    /\ UNCHANGED clientVars
    /\ UNCHANGED parseVars
    /\ UNCHANGED concurrentVars
    /\ UNCHANGED appVars

-----------------------------------------------------------------------------
(* The poll request, lines 89-104 *)

\* encodeURIComponent on the characters the keys of this model use: letters
\* and digits are kept, the others are percent-encoded.
EscapedChar(ch) ==
    CASE ch = "/" -> "%2F"
      [] ch = "&" -> "%26"
      [] ch = "=" -> "%3D"
      [] ch = "?" -> "%3F"
      [] ch = " " -> "%20"
      [] OTHER -> ch

RECURSIVE EncodeURIComponent(_)
EncodeURIComponent(s) ==
    IF s = "" THEN ""
    ELSE EscapedChar(SubSeq(s, 1, 1)) \o EncodeURIComponent(SubSeq(s, 2, Len(s)))

\* lines 89-92
UrlWithKey(e, fetchUrl) ==
    IF Truthy(SD_API_KEY(e)) /\ ~Includes(fetchUrl, "key=")
    THEN fetchUrl \o (IF Includes(fetchUrl, "?") THEN "&" ELSE "?")
                  \o "key=" \o EncodeURIComponent(SD_API_KEY(e))
    ELSE fetchUrl

RequestIdOfLastData(initData, lData) == lData.id

\* line 102
RequestId(initData, lData) == initData.id

\* lines 94-104; fetchUrl is read once, on line 81
PollRequest(e, initData, lData) ==
    [url     |-> UrlWithKey(e, initData.fetch_result),
     method  |-> "POST",
     headers |-> BaseHeaders,
     body    |-> [key |-> SD_API_KEY(e), request_id |-> RequestId(initData, lData)]]

-----------------------------------------------------------------------------
(* The responses the provider may give *)

Statuses == {Undefined, "processing", "error", "failed", "success"}

ErrorFields == {Undefined, "", "quota exceeded"}

Messages == {Undefined, "generation rejected"}

ErrorLogs == {Undefined, "CUDA out of memory"}

FetchUrls ==
    {Undefined, "https://p/poll", "https://p/poll?id=7", "https://p/poll?key=zz"}

\* The image-bearing part of a body: none, a URL in image, inline base64
\* in artifacts[0].base64, inline base64 in data[0].b64_json whose first
\* characters happen to be "http" (the base64 of the bytes 86 DB 69 ...).
ImageShapes ==
    { EmptyBody,
      [EmptyBody EXCEPT !.image = "https://cdn/img.png"],
      [EmptyBody EXCEPT !.artifacts = Arr(<<[base64 |-> "aGVsbG8="]>>)],
      [EmptyBody EXCEPT !.data =
          Arr(<<[b64_json |-> "httpZm9vYmFy", url |-> Undefined]>>)] }

\* A message or an error log accompanies only an error report.
IsErrorReport(d) == d.status \in {"error", "failed"} \/ Truthy(d.error)

InitialBodies ==
    {NullBody} \cup
    { d \in { [sh EXCEPT !.status = s, !.error = e, !.message = m,
                         !.error_log = l, !.fetch_result = f, !.id = "r1"] :
                sh \in ImageShapes, s \in Statuses, e \in ErrorFields,
                m \in Messages, l \in ErrorLogs, f \in FetchUrls } :
        (Truthy(d.message) \/ Truthy(d.error_log)) => IsErrorReport(d) }

PollBodies ==
    {NullBody} \cup
    { d \in { [sh EXCEPT !.status = s, !.error = e, !.message = m,
                         !.id = "r2", !.fetch_result = "https://p/other"] :
                sh \in ImageShapes, s \in Statuses, e \in ErrorFields,
                m \in Messages } :
        Truthy(d.message) => IsErrorReport(d) }

\* An HTTP response: ok is response.ok, text the raw body, valid whether the
\* raw body is JSON, data the value it parses to.
JsonResponse(ok, d) == [ok |-> ok, valid |-> TRUE, text |-> "{json}", data |-> d]

TextResponse(ok, t) == [ok |-> ok, valid |-> FALSE, text |-> t, data |-> EmptyBody]

OtherResponses ==
    { TextResponse(FALSE, "Service Unavailable"),
      TextResponse(TRUE, "<html>Bad Gateway</html>"),
      JsonResponse(FALSE, [EmptyBody EXCEPT !.status = "processing"]),
      JsonResponse(FALSE, [EmptyBody EXCEPT !.image = "https://cdn/img.png"]) }

InitialResponses == {JsonResponse(TRUE, d) : d \in InitialBodies} \cup OtherResponses

PollResponses == {JsonResponse(TRUE, d) : d \in PollBodies} \cup OtherResponses

NoResponse == TextResponse(FALSE, Undefined)

-----------------------------------------------------------------------------
(* requestAndPoll *)

\* One entry of events: a fetch call (line 59 or 94), its settling with an
\* HTTP response or by rejection, or a completed sleep of ms milliseconds
\* (line 87).
Event(kind, ms) == [kind |-> kind, ms |-> ms]

MaySendPollWhileSleeping(p) == p \in {"sleep", "awake"}

\* line 87: await this.sleep(delayMs) has resumed
MaySendPoll(p) == p = "awake"

Returned(img) ==
    [pc |-> "returned", result |-> normalize(img), error |-> NoError]

Thrown(e) == [pc |-> "thrown", result |-> Undefined, error |-> e]

Running(p) == [pc |-> p, result |-> Undefined, error |-> NoError]

\* lines 134-139
Final(img, initData) ==
    IF ThrowsNoImage(img)
    THEN Thrown(Err("Error", "No image returned from Stable Diffusion. Payload: ",
                    initData))
    ELSE Returned(img)

\* lines 127-139
AfterLoop(img, lData, initData) ==
    IF ThrowsNoImage(img)
    THEN Thrown(Err("Error",
                    "No image returned from Stable Diffusion after polling. Payload: ",
                    lData))
    ELSE Final(img, initData)

\* line 86, the loop test: another iteration (sleep, then poll) or the end
LoopTest(att, img, lData, initData) ==
    IF LoopCond(att, img) THEN Running("sleep") ELSE AfterLoop(img, lData, initData)

\* lines 49-63: the initial POST is sent
Start ==
    /\ pc = "idle"
    /\ pc' = "fetchInitial"
    /\ events' = Append(events, Event("initialFetch", 0))
    /\ UNCHANGED <<initialData, lastData, image, attempt, polls, initialRes,
                   pollLog, result, error>>
    /\ UNCHANGED pollRequests
    /\ UNCHANGED parseVars
    /\ UNCHANGED requestVars
    /\ UNCHANGED concurrentVars
    /\ UNCHANGED appVars

\* line 59: fetch rejects (no HTTP response at all)
InitialFetchRejects ==
    /\ pc = "fetchInitial"
    /\ pc' = "thrown"
    /\ error' = Err("TypeError", "Failed to fetch", EmptyBody)
    /\ events' = Append(events, Event("rejected", 0))
    /\ UNCHANGED <<initialData, lastData, image, attempt, polls, initialRes,
                   pollLog, result>>
    /\ UNCHANGED pollRequests
    /\ UNCHANGED parseVars
    /\ UNCHANGED requestVars
    /\ UNCHANGED concurrentVars
    /\ UNCHANGED appVars

\* lines 65-86: the response to the initial POST arrives
InitialResponse(r) ==
    /\ pc = "fetchInitial"
    /\ initialRes' = r
    /\ events' = Append(events, Event("response", 0))
    /\ IF InitialTransportFailure(r)
       THEN LET o == Thrown(Err("Error",
                       "Stable Diffusion request failed: "
                           \o ResponseText(r, FALSE).value, EmptyBody))
            IN  /\ pc' = o.pc /\ result' = o.result /\ error' = o.error
                /\ UNCHANGED <<initialData, lastData, image>>
       ELSE IF ~r.valid
       THEN \* line 70: response.json() rejects
            LET o == Thrown(Err("SyntaxError", "Unexpected token", EmptyBody))
            IN  /\ pc' = o.pc /\ result' = o.result /\ error' = o.error
                /\ UNCHANGED <<initialData, lastData, image>>
       ELSE IF r.data.isNull
       THEN \* line 72: property access on null
            LET o == Thrown(Err("TypeError",
                       "Cannot read properties of null", EmptyBody))
            IN  /\ pc' = o.pc /\ result' = o.result /\ error' = o.error
                /\ initialData' = r.data
                /\ UNCHANGED <<lastData, image>>
       ELSE IF InitialProviderError(r.data)
       THEN LET o == Thrown(Err("Error", InitialProviderMessage(r.data), EmptyBody))
            IN  /\ pc' = o.pc /\ result' = o.result /\ error' = o.error
                /\ initialData' = r.data
                /\ UNCHANGED <<lastData, image>>
       ELSE LET img == parseImage(r.data)
                o   == IF EntersPolling(img, r.data)
                       THEN LoopTest(0, img, r.data, r.data)
                       ELSE Final(img, r.data)
            IN  /\ pc' = o.pc /\ result' = o.result /\ error' = o.error
                /\ initialData' = r.data
                /\ image' = img
                /\ lastData' = IF EntersPolling(img, r.data) THEN r.data ELSE lastData
    /\ UNCHANGED <<attempt, polls, pollLog>>
    /\ UNCHANGED pollRequests
    /\ UNCHANGED parseVars
    /\ UNCHANGED requestVars
    /\ UNCHANGED concurrentVars
    /\ UNCHANGED appVars

\* line 87: the timer of sleep(delayMs) fires and the call resumes
Wake ==
    /\ pc = "sleep"
    /\ pc' = "awake"
    /\ events' = Append(events, Event("sleep", delayMs))
    /\ UNCHANGED <<initialData, lastData, image, attempt, polls, initialRes,
                   pollLog, result, error>>
    /\ UNCHANGED pollRequests
    /\ UNCHANGED parseVars
    /\ UNCHANGED requestVars
    /\ UNCHANGED concurrentVars
    /\ UNCHANGED appVars

\* lines 89-104: the poll POST is sent
SendPoll ==
    /\ MaySendPoll(pc)
    /\ pc' = "fetchPoll"
    /\ polls' = polls + 1
    /\ events' = Append(events, Event("pollFetch", 0))
    /\ pollRequests' = Append(pollRequests, PollRequest(env, initialData, lastData))
    /\ UNCHANGED <<initialData, lastData, image, attempt, initialRes,
                   pollLog, result, error>>
    /\ UNCHANGED parseVars
    /\ UNCHANGED requestVars
    /\ UNCHANGED concurrentVars
    /\ UNCHANGED appVars

\* line 94: fetch rejects
PollFetchRejects ==
    /\ pc = "fetchPoll"
    /\ pc' = "thrown"
    /\ error' = Err("TypeError", "Failed to fetch", EmptyBody)
    /\ events' = Append(events, Event("rejected", 0))
    /\ UNCHANGED <<initialData, lastData, image, attempt, polls, initialRes,
                   pollLog, result>>
    /\ UNCHANGED pollRequests
    /\ UNCHANGED parseVars
    /\ UNCHANGED requestVars
    /\ UNCHANGED concurrentVars
    /\ UNCHANGED appVars

\* lines 105-125 and, when the loop ends, 127-139
PollResponse(r) ==
    /\ pc = "fetchPoll"
    /\ pollLog' = Append(pollLog, r)
    /\ events' = Append(events, Event("response", 0))
    /\ IF PollTransportFailure(r)
       THEN LET o == Thrown(Err("Error",
                       "Stable Diffusion poll failed: "
                           \o ResponseText(r, FALSE).value, EmptyBody))
            IN  /\ pc' = o.pc /\ result' = o.result /\ error' = o.error
                /\ UNCHANGED <<lastData, image, attempt>>
       ELSE IF ~r.valid
       THEN \* lines 110-113: pollRes.json() has consumed the body and rejects;
            \* the handler then reads pollRes.text()
            LET t == ResponseText(r, TRUE)
                o == IF t.rejected
                     THEN Thrown(BodyUsedError)
                     ELSE Thrown(Err("Error",
                            "Stable Diffusion poll parse failed: " \o t.value,
                            EmptyBody))
            IN  /\ pc' = o.pc /\ result' = o.result /\ error' = o.error
                /\ UNCHANGED <<lastData, image, attempt>>
       ELSE IF PollProviderError(r.data)
       THEN LET o == Thrown(Err("Error", PollProviderMessage(r.data), EmptyBody))
            IN  /\ pc' = o.pc /\ result' = o.result /\ error' = o.error
                /\ lastData' = r.data
                /\ UNCHANGED <<image, attempt>>
       ELSE LET img == parseImage(r.data)
                o   == IF BreaksEarly(r.data, img)
                       THEN AfterLoop(img, r.data, initialData)
                       ELSE LoopTest(attempt + 1, img, r.data, initialData)
            IN  /\ pc' = o.pc /\ result' = o.result /\ error' = o.error
                /\ lastData' = r.data
                /\ image' = img
                /\ attempt' = IF BreaksEarly(r.data, img) THEN attempt ELSE attempt + 1
    /\ UNCHANGED <<initialData, polls, initialRes>>
    /\ UNCHANGED pollRequests
    /\ UNCHANGED parseVars
    /\ UNCHANGED requestVars
    /\ UNCHANGED concurrentVars
    /\ UNCHANGED appVars

-----------------------------------------------------------------------------
(* Several calls of generateQuantumManifestation running concurrently.     *)
(* The locals of a call live in its own record; the configuration is the  *)
(* only thing the calls have in common, and nothing writes it.            *)

Calls == {"A", "B"}

\* The locals of a call before it starts; inbox holds what its fetches
\* settled with, in order.
IdleCall(a) ==
    [pc |-> "idle", args |-> a, request |-> NoRequest,
     initialData |-> EmptyBody, lastData |-> EmptyBody, image |-> Undefined,
     attempt |-> 0, polls |-> 0, result |-> Undefined, error |-> NoError,
     inbox |-> <<>>]

NoCalls == [c \in Calls |-> IdleCall(DefaultArgs)]

\* What a fetch that rejects settles with.
Rejection == TextResponse(FALSE, "<rejected>")

ConcurrentArgs ==
    {DefaultArgs, [DefaultArgs EXCEPT !.baseImage = "iVBORw0KGgo"]}

ConcurrentInitialResponses ==
    { JsonResponse(TRUE, [EmptyBody EXCEPT !.status = "processing",
                                           !.fetch_result = "https://p/poll"]),
      JsonResponse(TRUE, [EmptyBody EXCEPT !.image = "https://cdn/img.png"]),
      JsonResponse(TRUE, [EmptyBody EXCEPT !.status = "success"]),
      JsonResponse(TRUE, [EmptyBody EXCEPT !.status = "failed"]),
      TextResponse(FALSE, "Service Unavailable") }

ConcurrentPollResponses ==
    { JsonResponse(TRUE, [EmptyBody EXCEPT !.status = "processing"]),
      JsonResponse(TRUE, [EmptyBody EXCEPT !.status = "success",
                             !.artifacts = Arr(<<[base64 |-> "aGVsbG8="]>>)]),
      JsonResponse(TRUE, [EmptyBody EXCEPT !.status = "success"]),
      JsonResponse(TRUE, [EmptyBody EXCEPT !.status = "error"]),
      TextResponse(TRUE, "<html>Bad Gateway</html>") }

Outcome(st, o) == [st EXCEPT !.pc = o.pc, !.result = o.result, !.error = o.error]

LoopCounterShared(cs, c) == cs["A"].attempt

\* line 86: attempt is declared by let inside the call
LoopCounter(cs, c) == cs[c].attempt

\* lines 142-179 and 49-63: the payload is built and the initial POST sent
Started(st, seed) ==
    [st EXCEPT !.pc = "fetchInitial",
               !.request = BuildRequest(UnsetEnv, st.args, seed)]

\* lines 59 and 94: the fetch rejects
AfterRejection(st) ==
    [Outcome(st, Thrown(Err("TypeError", "Failed to fetch", EmptyBody)))
        EXCEPT !.inbox = Append(@, Rejection)]

\* lines 65-86
AfterInitial(st, r) ==
    LET got == [st EXCEPT !.inbox = Append(@, r)]
    IN  IF InitialTransportFailure(r)
        THEN Outcome(got, Thrown(Err("Error",
                 "Stable Diffusion request failed: "
                     \o ResponseText(r, FALSE).value, EmptyBody)))
        ELSE IF ~r.valid
        THEN Outcome(got, Thrown(Err("SyntaxError", "Unexpected token", EmptyBody)))
        ELSE IF r.data.isNull
        THEN [Outcome(got, Thrown(Err("TypeError",
                  "Cannot read properties of null", EmptyBody)))
                 EXCEPT !.initialData = r.data]
        ELSE IF InitialProviderError(r.data)
        THEN [Outcome(got, Thrown(Err("Error", InitialProviderMessage(r.data),
                                       EmptyBody)))
                 EXCEPT !.initialData = r.data]
        ELSE LET img == parseImage(r.data)
                 o   == IF EntersPolling(img, r.data)
                        THEN LoopTest(0, img, r.data, r.data)
                        ELSE Final(img, r.data)
             IN  [Outcome(got, o) EXCEPT
                     !.initialData = r.data,
                     !.image = img,
                     !.attempt = 0,
                     !.lastData = IF EntersPolling(img, r.data) THEN r.data ELSE @]

\* lines 105-139, att being the value the loop counter is read with
AfterPoll(st, r, att) ==
    LET got == [st EXCEPT !.inbox = Append(@, r)]
    IN  IF PollTransportFailure(r)
        THEN Outcome(got, Thrown(Err("Error",
                 "Stable Diffusion poll failed: "
                     \o ResponseText(r, FALSE).value, EmptyBody)))
        ELSE IF ~r.valid
        THEN LET t == ResponseText(r, TRUE)
             IN  Outcome(got,
                    IF t.rejected
                    THEN Thrown(BodyUsedError)
                    ELSE Thrown(Err("Error",
                            "Stable Diffusion poll parse failed: " \o t.value,
                            EmptyBody)))
        ELSE IF PollProviderError(r.data)
        THEN [Outcome(got, Thrown(Err("Error", PollProviderMessage(r.data),
                                       EmptyBody)))
                 EXCEPT !.lastData = r.data]
        ELSE LET img == parseImage(r.data)
                 o   == IF BreaksEarly(r.data, img)
                        THEN AfterLoop(img, r.data, st.initialData)
                        ELSE LoopTest(att + 1, img, r.data, st.initialData)
             IN  [Outcome(got, o) EXCEPT
                     !.lastData = r.data,
                     !.image = img,
                     !.attempt = IF BreaksEarly(r.data, img) THEN att ELSE att + 1]

CallStart(c) ==
    /\ calls[c].pc = "idle"
    /\ \E seed \in Seeds : calls' = [calls EXCEPT ![c] = Started(@, seed)]
    /\ UNCHANGED <<clientVars, parseVars, requestVars>>
    /\ UNCHANGED appVars

CallFetchRejects(c) ==
    /\ calls[c].pc \in {"fetchInitial", "fetchPoll"}
    /\ calls' = [calls EXCEPT ![c] = AfterRejection(@)]
    /\ UNCHANGED <<clientVars, parseVars, requestVars>>
    /\ UNCHANGED appVars

CallInitialResponse(c, r) ==
    /\ calls[c].pc = "fetchInitial"
    /\ calls' = [calls EXCEPT ![c] = AfterInitial(@, r)]
    /\ UNCHANGED <<clientVars, parseVars, requestVars>>
    /\ UNCHANGED appVars

CallWake(c) ==
    /\ calls[c].pc = "sleep"
    /\ calls' = [calls EXCEPT ![c].pc = "awake"]
    /\ UNCHANGED <<clientVars, parseVars, requestVars>>
    /\ UNCHANGED appVars

CallSendPoll(c) ==
    /\ MaySendPoll(calls[c].pc)
    /\ calls' = [calls EXCEPT ![c].pc = "fetchPoll", ![c].polls = @ + 1]
    /\ UNCHANGED <<clientVars, parseVars, requestVars>>
    /\ UNCHANGED appVars

CallPollResponse(c, r) ==
    /\ calls[c].pc = "fetchPoll"
    /\ calls' = [calls EXCEPT ![c] = AfterPoll(@, r, LoopCounter(calls, c))]
    /\ UNCHANGED <<clientVars, parseVars, requestVars>>
    /\ UNCHANGED appVars

ConcurrentNext ==
    \/ \E c \in Calls : CallStart(c)
    \/ \E c \in Calls : CallFetchRejects(c)
    \/ \E c \in Calls, r \in ConcurrentInitialResponses : CallInitialResponse(c, r)
    \/ \E c \in Calls : CallWake(c)
    \/ \E c \in Calls : CallSendPoll(c)
    \/ \E c \in Calls, r \in ConcurrentPollResponses : CallPollResponse(c, r)

-----------------------------------------------------------------------------

Init ==
    /\ pc = "idle"
    /\ initialData = EmptyBody
    /\ lastData = EmptyBody
    /\ image = Undefined
    /\ attempt = 0
    /\ polls = 0
    /\ initialRes = NoResponse
    /\ pollLog = <<>>
    /\ result = Undefined
    /\ error = NoError
    /\ events = <<>>
    /\ pollRequests = <<>>
    /\ parseArg = EmptyBody
    /\ parseRet = Undefined
    /\ parseDone = FALSE
    /\ RequestIdle
    /\ calls = NoCalls
    /\ AppIdle

Next ==
    \/ Start
    \/ InitialFetchRejects
    \/ \E r \in InitialResponses : InitialResponse(r)
    \/ Wake
    \/ SendPoll
    \/ PollFetchRejects
    \/ \E r \in PollResponses : PollResponse(r)

Spec == Init /\ [][Next]_vars

\* Every fetch eventually settles (with a response or by rejection), every
\* timer eventually fires, and the call itself keeps running between awaits.
Fairness ==
    /\ WF_vars(Start)
    /\ WF_vars(InitialFetchRejects \/ \E r \in InitialResponses : InitialResponse(r))
    /\ WF_vars(Wake)
    /\ WF_vars(SendPoll)
    /\ WF_vars(PollFetchRejects \/ \E r \in PollResponses : PollResponse(r))

FairSpec == Init /\ [][Next]_vars /\ Fairness

-----------------------------------------------------------------------------
(* parseImage applied on its own to a bounded set of bodies *)

MaxItems == 2

\* The arrays with first element in firsts: absent, empty, and of length
\* 1..MaxItems, the elements after the first being tail.
Arrays(firsts, tail) ==
    {NoArr, Arr(<<>>)} \cup
    { Arr([i \in 1..k |-> IF i = 1 THEN f ELSE tail]) :
        f \in firsts, k \in 1..MaxItems }

ParseInputs ==
    { [EmptyBody EXCEPT !.image = i, !.images = a, !.output = o,
                        !.artifacts = f, !.data = g] :
        i \in {Undefined, "", "https://cdn/image.png"},
        a \in Arrays({"", "https://cdn/images0.png"}, "https://cdn/images1.png"),
        o \in Arrays({"", "https://cdn/output0.png"}, "https://cdn/output1.png"),
        f \in Arrays({[base64 |-> b] : b \in {Undefined, "", "YXJ0"}},
                     [base64 |-> "dGFpbA=="]),
        g \in Arrays({[b64_json |-> j, url |-> u] :
                         j \in {Undefined, "", "YjY0"},
                         u \in {Undefined, "", "https://cdn/data0.png"}},
                     [b64_json |-> "dGFpbA==", url |-> "https://cdn/data1.png"]) }

ClientIdle ==
    /\ pc = "idle"
    /\ initialData = EmptyBody
    /\ lastData = EmptyBody
    /\ image = Undefined
    /\ attempt = 0
    /\ polls = 0
    /\ initialRes = NoResponse
    /\ pollLog = <<>>
    /\ result = Undefined
    /\ error = NoError
    /\ events = <<>>
    /\ pollRequests = <<>>

ParseInit ==
    /\ ClientIdle
    /\ RequestIdle
    /\ calls = NoCalls
    /\ AppIdle
    /\ parseArg \in ParseInputs
    /\ parseRet = Undefined
    /\ parseDone = FALSE

ParseApply ==
    /\ ~parseDone
    /\ parseRet' = parseImage(parseArg)
    /\ parseDone' = TRUE
    /\ UNCHANGED parseArg
    /\ UNCHANGED clientVars
    /\ UNCHANGED requestVars
    /\ UNCHANGED concurrentVars
    /\ UNCHANGED appVars

SpecParse == ParseInit /\ [][ParseApply]_vars

-----------------------------------------------------------------------------
(* The request built by generateQuantumManifestation, on its own: over the  *)
(* configurations and base images (SpecRequest), and over the whole slider  *)
(* grid of wave parameters (SpecPrompt)                                     *)

ParseIdle ==
    /\ parseArg = EmptyBody
    /\ parseRet = Undefined
    /\ parseDone = FALSE

SpecRequestInit ==
    ClientIdle /\ ParseIdle /\ RequestInit /\ calls = NoCalls /\ AppIdle

SpecRequest == SpecRequestInit /\ [][SendRequest]_vars

SpecPromptInit ==
    ClientIdle /\ ParseIdle /\ PromptInit /\ calls = NoCalls /\ AppIdle

SpecPrompt == SpecPromptInit /\ [][SendRequest]_vars

-----------------------------------------------------------------------------
(* The App component (src/unnamed/part_000).  State updates made by one    *)
(* handler are committed together and followed by one render; the render   *)
(* re-creates handleCollapse when one of its dependencies has changed.     *)

MAX_FREE_USES == 5

MaxUsage == 6

RECURSIVE NumberToString(_)
\* line 88: Number.prototype.toString of a non-negative integer
NumberToString(n) ==
    IF n < 10 THEN SubSeq("0123456789", n + 1, n + 1)
    ELSE NumberToString(n \div 10)
            \o SubSeq("0123456789", (n % 10) + 1, (n % 10) + 1)

\* line 82: parseInt of a string that starts with a digit
ParseInt(s) ==
    LET IsDigit(c) == \E d \in 0..9 : SubSeq("0123456789", d + 1, d + 1) = c
        DigitValue(c) == CHOOSE d \in 0..9 : SubSeq("0123456789", d + 1, d + 1) = c
        RECURSIVE ParseDigits(_, _)
        ParseDigits(t, acc) ==
            IF Len(t) = 0 \/ ~IsDigit(SubSeq(t, 1, 1)) THEN acc
            ELSE ParseDigits(SubSeq(t, 2, Len(t)),
                             acc * 10 + DigitValue(SubSeq(t, 1, 1)))
    IN  ParseDigits(s, 0)

\* What quantum_usage may hold when the App is opened: counts the App has
\* written on earlier visits.
StoredUsage == {NumberToString(MAX_FREE_USES - 2), NumberToString(MAX_FREE_USES - 1)}

AppAtoms == {"Hydrogen", "Carbon"}

WaveChoices ==
    { [wavelength |-> 100, amplitude |-> 100],
      [wavelength |-> 155, amplitude |-> 100] }

\* lines 91-103: one of the values pickRandomSubject returns
Subjects == {"ethereal wolf"}

\* What the user may type into the URL field.
SelfieUrlInputs == {"", "https://me/selfie.jpg "}

\* What a FileReader may deliver for the chosen file (line 203).
FileResults == {"data:image/png;base64,AAAA"}

\* What generateQuantumManifestation resolves with and explainCollapse returns.
GeneratedImages == {"https://cdn/img.png"}

\* src/services/geminiService.ts lines 182-213: one of the texts explainCollapse
\* returns for the subject
ExplainCollapse(entity) ==
    "Under extreme decoherence, the field braided its probability tides, "
       \o "until it resembled " \o entity
       \o ". leaving auroral scars across the chamber glass."

\* err.message of what generateQuantumManifestation rejects with
Failures == {"Stable Diffusion request failed: Service Unavailable", Undefined}

RECURSIVE Trim(_)
\* s.trim()
Trim(s) ==
    IF s # "" /\ SubSeq(s, 1, 1) = " " THEN Trim(SubSeq(s, 2, Len(s)))
    ELSE IF s # "" /\ SubSeq(s, Len(s), Len(s)) = " "
    THEN Trim(SubSeq(s, 1, Len(s) - 1))
    ELSE s

\* line 138: selfieUrl.trim() || selfieData || undefined
BaseImage(url, data) ==
    IF Trim(url) # "" THEN Trim(url)
    ELSE IF data # Null /\ data # "" THEN data
    ELSE Undefined

\* line 159: the dependency list of handleCollapse
Deps(m) ==
    <<m.selectedAtom, m.waveParams, m.usageCount, m.isSubscribed, m.selfieData>>

\* useCallback: the previous function unless a dependency has changed
UseCallback(old, new) == IF Deps(old) = Deps(new) THEN old ELSE new

\* The render that follows a commit.
Render ==
    handleCollapse' =
        UseCallback(handleCollapse,
                    Captured(selectedAtom', waveParams', usageCount',
                             isSubscribed', selfieData', selfieUrl'))

\* line 209
Landing(started, st) == ~started /\ ~st.isCollapsed

ControlsShownAlways(started, st) == ~Landing(started, st)

\* line 502: the controls are rendered unless the result view is
ControlsShown(started, st) == ~Landing(started, st) /\ ~st.isCollapsed

CollapseButtonAlwaysEnabled(st) == TRUE

\* line 615: disabled={state.isCollapsing}
CollapseButtonEnabled(st) == ~st.isCollapsing

\* Effects of the last render that have not run yet (lines 87-89, 161-166);
\* they run before the next user event is handled.
EffectsPending ==
    \/ ~mounted
    \/ localStorage.quantum_usage # NumberToString(usageCount)
    \/ isStarted /\ pendingAutoCollapse

PaywallNever(m) == FALSE

\* line 127
Refused(m) == ~m.isSubscribed /\ m.usageCount >= MAX_FREE_USES

\* line 132
Collapsing(st) == [st EXCEPT !.isCollapsing = TRUE, !.error = Null]

UsageCountedTwice(u) == u + 2

\* line 144
UsageAfterSuccess(u) == u + 1

SelfieUrlKept(url) == url

\* line 146
SelfieUrlAfterSuccess(url) == ""

\* lines 147-153
Collapsed(st, imageUrl, explanation) ==
    [st EXCEPT !.isCollapsing = FALSE, !.isCollapsed = TRUE,
               !.collapsedImage = imageUrl, !.explanation = explanation]

\* line 156
FailureMessage(message) ==
    IF Truthy(message)
    THEN "Quantum decoherence failed: " \o message
    ELSE "Quantum decoherence failed. Check your Stable Diffusion endpoint and key."

FailedStillCollapsing(st, message) ==
    [st EXCEPT !.error = FailureMessage(message)]

\* line 157
Failed(st, message) ==
    [st EXCEPT !.isCollapsing = FALSE, !.error = FailureMessage(message)]

\* The generation call handleCollapse m makes for subject (line 140), with
\* the App state at that moment.
Call(m, subject) ==
    [atom |-> m.selectedAtom, entity |-> subject, params |-> m.waveParams,
     baseImage |-> BaseImage(m.selfieUrl, m.selfieData),
     consent |-> selfieConsent,
     attached |-> BaseImage(selfieUrl, selfieData),
     usage |-> usageCount, subscribed |-> isSubscribed,
     inFlight |-> Len(generating)]

nonAppVars == <<clientVars, parseVars, requestVars, concurrentVars>>

\* lines 126-142: handleCollapse as created by the render that captured m, up
\* to its await
Collapse(m) ==
    IF Refused(m)
    THEN /\ showPaywall' = TRUE
         /\ UNCHANGED <<state, selectedEntity, generating>>
    ELSE /\ usageCount < MaxUsage
         /\ \E subject \in Subjects :
               /\ selectedEntity' = subject
               /\ generating' = Append(generating, Call(m, subject))
         /\ state' = Collapsing(state)
         /\ UNCHANGED showPaywall

\* lines 105-109: Enter Experience
handleStart ==
    /\ Landing(isStarted, state)
    /\ ~EffectsPending
    /\ state' = InitialQuantumState
    /\ showPaywall' = FALSE
    /\ isStarted' = TRUE
    /\ UNCHANGED <<selectedAtom, selectedEntity, waveParams, isSubscribed,
                   usageCount, isProcessingPayment, selfieData,
                   selfieConsent, selfieUrl, pendingAutoCollapse,
                   localStorage, readers, generating, dropped>>
    /\ Render
    /\ UNCHANGED <<mounted, nonAppVars>>

\* lines 111-114: Start Collapsing
handleStartAndCollapse ==
    /\ Landing(isStarted, state)
    /\ ~EffectsPending
    /\ pendingAutoCollapse' = TRUE
    /\ state' = InitialQuantumState
    /\ showPaywall' = FALSE
    /\ isStarted' = TRUE
    /\ UNCHANGED <<selectedAtom, selectedEntity, waveParams, isSubscribed,
                   usageCount, isProcessingPayment, selfieData,
                   selfieConsent, selfieUrl, localStorage, readers,
                   generating, dropped>>
    /\ Render
    /\ UNCHANGED <<mounted, nonAppVars>>

\* lines 161-166: the effect that runs handleCollapse after Start Collapsing
AutoCollapseEffect ==
    /\ isStarted
    /\ pendingAutoCollapse
    /\ pendingAutoCollapse' = FALSE
    /\ Collapse(handleCollapse)
    /\ UNCHANGED <<isStarted, selectedAtom, waveParams, isSubscribed,
                   usageCount, isProcessingPayment, selfieData,
                   selfieConsent, selfieUrl, localStorage, readers, dropped>>
    /\ Render
    /\ UNCHANGED <<mounted, nonAppVars>>

\* lines 613-616: the COLLAPSE WAVE button
ClickCollapse ==
    /\ ControlsShown(isStarted, state)
    /\ CollapseButtonEnabled(state)
    /\ ~EffectsPending
    /\ Collapse(handleCollapse)
    /\ UNCHANGED <<isStarted, selectedAtom, waveParams, isSubscribed,
                   usageCount, isProcessingPayment, selfieData,
                   selfieConsent, selfieUrl, pendingAutoCollapse,
                   localStorage, readers, dropped>>
    /\ Render
    /\ UNCHANGED <<mounted, nonAppVars>>

\* lines 139-153: both promises of call i have resolved
GenerationSucceeds(i, imageUrl, explanation) ==
    /\ i \in DOMAIN generating
    /\ usageCount' = UsageAfterSuccess(usageCount)
    /\ selfieData' = Null
    /\ selfieUrl' = SelfieUrlAfterSuccess(selfieUrl)
    /\ state' = Collapsed(state, imageUrl, explanation)
    /\ generating' = SubSeq(generating, 1, i - 1) \o SubSeq(generating, i + 1, Len(generating))
    /\ dropped' = generating[i].baseImage
    /\ UNCHANGED <<isStarted, selectedAtom, selectedEntity, waveParams,
                   isSubscribed, showPaywall, isProcessingPayment,
                   selfieConsent, pendingAutoCollapse, localStorage, readers>>
    /\ Render
    /\ UNCHANGED <<mounted, nonAppVars>>

\* lines 154-158: generateQuantumManifestation of call i has rejected
GenerationFails(i, message) ==
    /\ i \in DOMAIN generating
    /\ state' = Failed(state, message)
    /\ generating' = SubSeq(generating, 1, i - 1) \o SubSeq(generating, i + 1, Len(generating))
    /\ UNCHANGED <<isStarted, selectedAtom, selectedEntity, waveParams,
                   isSubscribed, usageCount, showPaywall,
                   isProcessingPayment, selfieData, selfieConsent, selfieUrl,
                   pendingAutoCollapse, localStorage, readers, dropped>>
    /\ Render
    /\ UNCHANGED <<mounted, nonAppVars>>

\* lines 168-176 and 697: NEW EXPERIMENT
resetExperiment ==
    /\ state.isCollapsed
    /\ ~EffectsPending
    /\ state' = InitialQuantumState
    /\ UNCHANGED <<isStarted, selectedAtom, selectedEntity, waveParams,
                   isSubscribed, usageCount, showPaywall,
                   isProcessingPayment, selfieData, selfieConsent, selfieUrl,
                   pendingAutoCollapse, localStorage, readers, generating,
                   dropped>>
    /\ Render
    /\ UNCHANGED <<mounted, nonAppVars>>

\* lines 116-117 and 446-448: PAY in the paywall
simulateCheckout ==
    /\ ~Landing(isStarted, state)
    /\ showPaywall
    /\ ~isProcessingPayment
    /\ ~EffectsPending
    /\ isProcessingPayment' = TRUE
    /\ UNCHANGED <<isStarted, selectedAtom, selectedEntity, waveParams,
                   isSubscribed, usageCount, showPaywall, selfieData,
                   selfieConsent, selfieUrl, pendingAutoCollapse, state,
                   localStorage, readers, generating, dropped>>
    /\ Render
    /\ UNCHANGED <<mounted, nonAppVars>>

\* lines 118-123: the 2000 ms timer of simulateCheckout fires
CheckoutTimer ==
    /\ isProcessingPayment
    /\ isSubscribed' = TRUE
    /\ localStorage' = [localStorage EXCEPT !.quantum_subscribed = "true"]
    /\ isProcessingPayment' = FALSE
    /\ showPaywall' = FALSE
    /\ UNCHANGED <<isStarted, selectedAtom, selectedEntity, waveParams,
                   usageCount, selfieData, selfieConsent, selfieUrl,
                   pendingAutoCollapse, state, readers, generating, dropped>>
    /\ Render
    /\ UNCHANGED <<mounted, nonAppVars>>

\* line 453: Maybe later
DismissPaywall ==
    /\ ~Landing(isStarted, state)
    /\ showPaywall
    /\ ~EffectsPending
    /\ showPaywall' = FALSE
    /\ UNCHANGED <<isStarted, selectedAtom, selectedEntity, waveParams,
                   isSubscribed, usageCount, isProcessingPayment, selfieData,
                   selfieConsent, selfieUrl, pendingAutoCollapse, state,
                   localStorage, readers, generating, dropped>>
    /\ Render
    /\ UNCHANGED <<mounted, nonAppVars>>

\* lines 476-478: the upgrade button of the header
OpenPaywall ==
    /\ ~Landing(isStarted, state)
    /\ ~isSubscribed
    /\ ~showPaywall
    /\ ~EffectsPending
    /\ showPaywall' = TRUE
    /\ UNCHANGED <<isStarted, selectedAtom, selectedEntity, waveParams,
                   isSubscribed, usageCount, isProcessingPayment, selfieData,
                   selfieConsent, selfieUrl, pendingAutoCollapse, state,
                   localStorage, readers, generating, dropped>>
    /\ Render
    /\ UNCHANGED <<mounted, nonAppVars>>

\* line 513
SelectAtom(atom) ==
    /\ ControlsShown(isStarted, state)
    /\ ~EffectsPending
    /\ atom # selectedAtom
    /\ selectedAtom' = atom
    /\ UNCHANGED <<isStarted, selectedEntity, waveParams, isSubscribed,
                   usageCount, showPaywall, isProcessingPayment, selfieData,
                   selfieConsent, selfieUrl, pendingAutoCollapse, state,
                   localStorage, readers, generating, dropped>>
    /\ Render
    /\ UNCHANGED <<mounted, nonAppVars>>

\* lines 533-551: the sliders
SetWaveParams(params) ==
    /\ ControlsShown(isStarted, state)
    /\ ~EffectsPending
    /\ params # waveParams
    /\ waveParams' = params
    /\ UNCHANGED <<isStarted, selectedAtom, selectedEntity, isSubscribed,
                   usageCount, showPaywall, isProcessingPayment, selfieData,
                   selfieConsent, selfieUrl, pendingAutoCollapse, state,
                   localStorage, readers, generating, dropped>>
    /\ Render
    /\ UNCHANGED <<mounted, nonAppVars>>

\* lines 576-586: the consent checkbox
ToggleConsent ==
    /\ ControlsShown(isStarted, state)
    /\ ~EffectsPending
    /\ selfieConsent' = ~selfieConsent
    /\ selfieData' = IF selfieConsent THEN Null ELSE selfieData
    /\ selfieUrl' = IF selfieConsent THEN "" ELSE selfieUrl
    /\ UNCHANGED <<isStarted, selectedAtom, selectedEntity, waveParams,
                   isSubscribed, usageCount, showPaywall,
                   isProcessingPayment, pendingAutoCollapse, state,
                   localStorage, readers, generating, dropped>>
    /\ Render
    /\ UNCHANGED <<mounted, nonAppVars>>

\* lines 590-597: the URL field
EditSelfieUrl(url) ==
    /\ ControlsShown(isStarted, state)
    /\ selfieConsent
    /\ ~EffectsPending
    /\ url # selfieUrl
    /\ selfieUrl' = url
    /\ dropped' = IF BaseImage(url, Null) = dropped THEN Undefined ELSE dropped
    /\ UNCHANGED <<isStarted, selectedAtom, selectedEntity, waveParams,
                   isSubscribed, usageCount, showPaywall,
                   isProcessingPayment, selfieData, selfieConsent,
                   pendingAutoCollapse, state, localStorage, readers,
                   generating>>
    /\ Render
    /\ UNCHANGED <<mounted, nonAppVars>>

\* lines 196-207 and 598-604: a file is chosen (Null: none)
handleSelfieUpload(file) ==
    /\ ControlsShown(isStarted, state)
    /\ selfieConsent
    /\ ~EffectsPending
    /\ IF file = Null
       THEN selfieData' = Null /\ UNCHANGED readers
       ELSE readers' = readers \cup {file} /\ UNCHANGED selfieData
    /\ UNCHANGED <<isStarted, selectedAtom, selectedEntity, waveParams,
                   isSubscribed, usageCount, showPaywall,
                   isProcessingPayment, selfieConsent, selfieUrl,
                   pendingAutoCollapse, state, localStorage, generating,
                   dropped>>
    /\ Render
    /\ UNCHANGED <<mounted, nonAppVars>>

\* lines 202-205: reader.onload
ReaderLoads(file) ==
    /\ file \in readers
    /\ readers' = readers \ {file}
    /\ selfieData' = IF file # "" THEN file ELSE Null
    /\ dropped' = IF file = dropped THEN Undefined ELSE dropped
    /\ UNCHANGED <<isStarted, selectedAtom, selectedEntity, waveParams,
                   isSubscribed, usageCount, showPaywall,
                   isProcessingPayment, selfieConsent, selfieUrl,
                   pendingAutoCollapse, state, localStorage, generating>>
    /\ Render
    /\ UNCHANGED <<mounted, nonAppVars>>

\* line 571: Clear
ClearSelfie ==
    /\ ControlsShown(isStarted, state)
    /\ selfieData # Null
    /\ ~EffectsPending
    /\ selfieData' = Null
    /\ UNCHANGED <<isStarted, selectedAtom, selectedEntity, waveParams,
                   isSubscribed, usageCount, showPaywall,
                   isProcessingPayment, selfieConsent, selfieUrl,
                   pendingAutoCollapse, state, localStorage, readers,
                   generating, dropped>>
    /\ Render
    /\ UNCHANGED <<mounted, nonAppVars>>

\* lines 87-89: the effect that stores usageCount
PersistUsage ==
    /\ mounted
    /\ localStorage.quantum_usage # NumberToString(usageCount)
    /\ localStorage' = [localStorage EXCEPT !.quantum_usage = NumberToString(usageCount)]
    /\ UNCHANGED <<isStarted, selectedAtom, selectedEntity, waveParams,
                   isSubscribed, usageCount, showPaywall,
                   isProcessingPayment, selfieData, selfieConsent, selfieUrl,
                   pendingAutoCollapse, state, readers, generating, dropped>>
    /\ UNCHANGED handleCollapse
    /\ UNCHANGED <<mounted, nonAppVars>>

\* lines 80-89: the effects of the first render.  The load effect reads
\* localStorage and sets usageCount and isSubscribed; the persist effect
\* stores the usageCount of the first render; the updates are then rendered.
Mount ==
    /\ ~mounted
    /\ mounted' = TRUE
    /\ usageCount' = IF localStorage.quantum_usage \notin {Null, ""}
                      THEN ParseInt(localStorage.quantum_usage)
                      ELSE usageCount
    /\ isSubscribed' = IF localStorage.quantum_subscribed = "true"
                        THEN TRUE
                        ELSE isSubscribed
    /\ localStorage' = [localStorage EXCEPT !.quantum_usage = NumberToString(usageCount)]
    /\ UNCHANGED <<isStarted, selectedAtom, selectedEntity, waveParams,
                   showPaywall, isProcessingPayment, selfieData,
                   selfieConsent, selfieUrl, pendingAutoCollapse, state,
                   readers, generating, dropped>>
    /\ Render
    /\ UNCHANGED nonAppVars

\* lines 56-76: the first render, with what localStorage holds from earlier
\* visits.
AppInit ==
    /\ ClientIdle
    /\ ParseIdle
    /\ RequestIdle
    /\ calls = NoCalls
    /\ mounted = FALSE
    /\ isStarted = FALSE
    /\ selectedAtom = "Hydrogen"
    /\ selectedEntity = "arctic fox"
    /\ waveParams = [wavelength |-> 100, amplitude |-> 100]
    /\ isSubscribed = FALSE
    /\ usageCount = 0
    /\ showPaywall = FALSE
    /\ isProcessingPayment = FALSE
    /\ selfieData = Null
    /\ selfieConsent = FALSE
    /\ selfieUrl = ""
    /\ pendingAutoCollapse = FALSE
    /\ state = InitialQuantumState
    /\ handleCollapse = Captured(selectedAtom, waveParams, usageCount,
                                 isSubscribed, selfieData, selfieUrl)
    /\ localStorage \in [quantum_usage : StoredUsage,
                          quantum_subscribed : {Null, "true"}]
    /\ readers = {}
    /\ generating = <<>>
    /\ dropped = Undefined

AppNext ==
    \/ Mount
    \/ handleStart
    \/ handleStartAndCollapse
    \/ AutoCollapseEffect
    \/ ClickCollapse
    \/ \E i \in 1..Len(generating), imageUrl \in GeneratedImages :
          GenerationSucceeds(i, imageUrl, ExplainCollapse(generating[i].entity))
    \/ \E i \in 1..Len(generating), message \in Failures : GenerationFails(i, message)
    \/ resetExperiment
    \/ simulateCheckout
    \/ CheckoutTimer
    \/ DismissPaywall
    \/ OpenPaywall
    \/ \E atom \in AppAtoms : SelectAtom(atom)
    \/ \E params \in WaveChoices : SetWaveParams(params)
    \/ ToggleConsent
    \/ \E url \in SelfieUrlInputs : EditSelfieUrl(url)
    \/ \E file \in FileResults \cup {Null} : handleSelfieUpload(file)
    \/ \E file \in FileResults : ReaderLoads(file)
    \/ ClearSelfie
    \/ PersistUsage

SpecApp == AppInit /\ [][AppNext]_vars

\* Effects and timers run, file reads and generation calls complete.
FairSpecApp ==
    /\ AppInit
    /\ [][AppNext]_vars
    /\ WF_vars(Mount)
    /\ WF_vars(PersistUsage)
    /\ WF_vars(AutoCollapseEffect)
    /\ WF_vars(CheckoutTimer)
    /\ WF_vars(\E file \in FileResults : ReaderLoads(file))
    /\ WF_vars(\/ \E i \in 1..Len(generating), imageUrl \in GeneratedImages :
                        GenerationSucceeds(i, imageUrl,
                                           ExplainCollapse(generating[i].entity))
               \/ \E i \in 1..Len(generating), message \in Failures :
                        GenerationFails(i, message))

\* requestAndPoll with and without an API key configured
KeyedEnvs == {UnsetEnv, [UnsetEnv EXCEPT !.VITE_SD_API_KEY = "a/b c1"]}

KeyedInit ==
    /\ ClientIdle
    /\ ParseIdle
    /\ calls = NoCalls
    /\ AppIdle
    /\ env \in KeyedEnvs
    /\ args = DefaultArgs
    /\ request = NoRequest
    /\ built = FALSE

SpecKeyed == KeyedInit /\ [][Next]_vars

ConcurrentInit ==
    /\ ClientIdle
    /\ ParseIdle
    /\ RequestIdle
    /\ calls \in [Calls -> {IdleCall(a) : a \in ConcurrentArgs}]
    /\ AppIdle

SpecConcurrent == ConcurrentInit /\ [][ConcurrentNext]_vars

-----------------------------------------------------------------------------
(* Properties *)

Finished == pc \in {"returned", "thrown"}

\* The six candidates of a body, in the order the specification lists them.
Candidates(d) ==
    << d.image,
       IF Len(d.images.items) > 0 THEN d.images.items[1] ELSE Undefined,
       IF Len(d.output.items) > 0 THEN d.output.items[1] ELSE Undefined,
       IF Len(d.artifacts.items) > 0 THEN d.artifacts.items[1].base64 ELSE Undefined,
       IF Len(d.data.items) > 0 THEN d.data.items[1].b64_json ELSE Undefined,
       IF Len(d.data.items) > 0 THEN d.data.items[1].url ELSE Undefined >>

Present(v) == v # Undefined /\ v # ""

CarriesImage(d) == \E i \in 1..6 : Present(Candidates(d)[i])

FirstCandidate(d) ==
    LET c == Candidates(d)
    IN  c[CHOOSE i \in 1..6 : Present(c[i]) /\ \A j \in 1..(i - 1) : ~Present(c[j])]

\* The image reference a response yields: the body of an HTTP-ok response
\* that is JSON, run through parseImage.
Extracted(r) == IF r.ok /\ r.valid THEN parseImage(r.data) ELSE Undefined

IsNoImageAfterPolling(e, d) ==
    e = Err("Error",
            "No image returned from Stable Diffusion after polling. Payload: ", d)

IsNoImageError(e) ==
    e.message \in
        {"No image returned from Stable Diffusion after polling. Payload: ",
         "No image returned from Stable Diffusion. Payload: "}

\* Every poll request sent so far has been answered by an HTTP response.
AllPollsAnswered == Len(pollLog) = polls

\* Initial response: HTTP-ok JSON, status "processing", a fetch_result URL, no image.
InitialIsProcessing ==
    /\ initialRes.ok /\ initialRes.valid
    /\ initialRes.data.status = "processing"
    /\ Present(initialRes.data.fetch_result)
    /\ ~CarriesImage(initialRes.data)

\* Poll response: HTTP-ok JSON, status "processing", no image.
PollIsProcessing(r) ==
    r.ok /\ r.valid /\ r.data.status = "processing" /\ ~CarriesImage(r.data)

NoErrorField(r) == ~Present(r.data.error)

\* C1: a result is returned only if parseImage extracted a non-empty image
\* reference from the initial response or from one poll response of the call,
\* and the result is that reference normalized; a call that does not return
\* a result ends with a thrown error and no result.
C1_ResultOnlyFromExtractedImage ==
    /\ pc = "returned" =>
          /\ error = NoError
          /\ Present(image)
          /\ result = normalize(image)
          /\ \/ image = Extracted(initialRes)
             \/ \E i \in DOMAIN pollLog : image = Extracted(pollLog[i])
    /\ pc = "thrown" => result = Undefined /\ error # NoError
    /\ pc # "returned" => result = Undefined
    /\ (/\ Finished
        /\ ~Present(Extracted(initialRes))
        /\ \A i \in DOMAIN pollLog : ~Present(Extracted(pollLog[i])))
          => pc = "thrown"

C1_Witness ==
    /\ pc = "returned"
    /\ Len(pollLog) = 2
    /\ ~Present(Extracted(initialRes))
    /\ result = "data:image/png;base64,aGVsbG8="

\* C2 as stated: initial response "processing" with a fetch_result URL and no
\* image, every poll response HTTP-ok JSON "processing" without image: the call
\* ends after exactly 6 poll requests with the after-polling NoImageError.
C2_Original ==
    (/\ Finished
     /\ AllPollsAnswered
     /\ InitialIsProcessing
     /\ \A i \in DOMAIN pollLog : PollIsProcessing(pollLog[i]))
       => /\ polls = 6
          /\ pc = "thrown"
          /\ IsNoImageAfterPolling(error, pollLog[Len(pollLog)].data)

\* C2 amended: the same, for responses that moreover carry no non-empty error
\* field; and while such a call runs it never has more than 6 polls.
C2_ExactlySixPolls ==
    (/\ AllPollsAnswered
     /\ InitialIsProcessing /\ NoErrorField(initialRes)
     /\ \A i \in DOMAIN pollLog :
           PollIsProcessing(pollLog[i]) /\ NoErrorField(pollLog[i]))
       => /\ polls <= 6
          /\ Finished <=> polls = 6
          /\ Finished =>
                /\ pc = "thrown"
                /\ result = Undefined
                /\ IsNoImageAfterPolling(error, pollLog[6].data)

C2_Witness ==
    /\ pc = "thrown"
    /\ polls = 6
    /\ Len(pollLog) = 6
    /\ InitialIsProcessing /\ NoErrorField(initialRes)
    /\ \A i \in DOMAIN pollLog :
          PollIsProcessing(pollLog[i]) /\ NoErrorField(pollLog[i])

\* A poll response that is HTTP-ok JSON, has a status other than "processing"
\* (possibly none), no image, no "error" status and no error field.
StopsPolling(r) ==
    /\ r.ok /\ r.valid
    /\ r.data.status # "processing"
    /\ r.data.status # "error"
    /\ ~Present(r.data.error)
    /\ ~CarriesImage(r.data)

\* C3: if poll response k (k < 6) is HTTP-ok JSON with a status other than
\* "processing", no image and no error status/field, then no poll k+1 is sent
\* and the call fails there with the after-polling NoImageError.
C3_EarlyStop ==
    \A k \in DOMAIN pollLog :
       (k < 6 /\ StopsPolling(pollLog[k]))
          => /\ k = Len(pollLog)
             /\ polls = k
             /\ pc = "thrown"
             /\ result = Undefined
             /\ IsNoImageAfterPolling(error, pollLog[k].data)

C3_Witness ==
    /\ Len(pollLog) = 3
    /\ StopsPolling(pollLog[3])
    /\ pollLog[3].data.status = Undefined
    /\ pc = "thrown"

\* C4 as stated: for every k in 1..6, if the initial response is "processing"
\* with a fetch_result URL and no image, poll responses 1..k-1 are "processing"
\* without image and poll response k carries an extractable image, the call
\* has succeeded with the normalized image of response k after exactly k polls.
C4_Original ==
    \A k \in DOMAIN pollLog :
       (/\ InitialIsProcessing
        /\ \A i \in 1..(k - 1) : PollIsProcessing(pollLog[i])
        /\ CarriesImage(pollLog[k].data))
          => /\ pc = "returned"
             /\ result = normalize(FirstCandidate(pollLog[k].data))
             /\ polls = k
             /\ Len(pollLog) = k

\* C4 amended: the same, where the initial response and poll responses 1..k-1
\* carry no non-empty error field and poll response k is HTTP-ok JSON with
\* neither status "error" nor a non-empty error field.
C4_SuccessAtPollK ==
    \A k \in DOMAIN pollLog :
       (/\ InitialIsProcessing /\ NoErrorField(initialRes)
        /\ \A i \in 1..(k - 1) :
              PollIsProcessing(pollLog[i]) /\ NoErrorField(pollLog[i])
        /\ pollLog[k].ok /\ pollLog[k].valid
        /\ pollLog[k].data.status # "error" /\ NoErrorField(pollLog[k])
        /\ CarriesImage(pollLog[k].data))
          => /\ k <= 6
             /\ pc = "returned"
             /\ error = NoError
             /\ result = normalize(FirstCandidate(pollLog[k].data))
             /\ polls = k
             /\ Len(pollLog) = k

C4_Witness ==
    /\ pc = "returned"
    /\ polls = 6
    /\ Len(pollLog) = 6
    /\ \A i \in 1..5 : PollIsProcessing(pollLog[i])
    /\ result = "https://cdn/img.png"

\* C5: a poll response with a non-success HTTP status at attempt k fails the
\* call at once with the transport error carrying the response text: no later
\* poll is sent and no result is returned.
C5_PollTransportError ==
    \A k \in DOMAIN pollLog :
       ~pollLog[k].ok
          => /\ k = Len(pollLog)
             /\ polls = k
             /\ pc = "thrown"
             /\ result = Undefined
             /\ error = Err("Error",
                            "Stable Diffusion poll failed: " \o pollLog[k].text,
                            EmptyBody)

C5_Witness ==
    /\ Len(pollLog) = 2
    /\ ~pollLog[2].ok
    /\ pollLog[2].valid /\ CarriesImage(pollLog[2].data)
    /\ pc = "thrown"

\* The message a provider error report carries: message, else error.
ProviderMessage(d) == IF Present(d.message) THEN d.message ELSE d.error

\* C6: if the initial JSON response has status "error" or "failed" or a
\* non-empty error field, the call fails with the provider message (the
\* error_log.error detail appended in parentheses when present) and no poll
\* request is ever sent, whatever image or fetch_result the response carries.
C6_InitialProviderError ==
    LET d == initialRes.data
    IN  (/\ initialRes.ok /\ initialRes.valid
         /\ d.status \in {"error", "failed"} \/ Present(d.error))
           => /\ pc = "thrown"
              /\ result = Undefined
              /\ polls = 0
              /\ pollLog = << >>
              /\ error.name = "Error"
              /\ ~IsNoImageError(error)
              /\ Present(ProviderMessage(d)) =>
                    error.message =
                       IF Present(d.error_log)
                       THEN ProviderMessage(d) \o " (" \o d.error_log \o ")"
                       ELSE ProviderMessage(d)

C6_Witness ==
    /\ pc = "thrown"
    /\ initialRes.ok /\ initialRes.valid
    /\ initialRes.data.status = "failed"
    /\ initialRes.data.fetch_result = "https://p/poll"
    /\ CarriesImage(initialRes.data)
    /\ error.message = "generation rejected (CUDA out of memory)"

\* C7: an "error" or "failed" status, or an error field, in a JSON body is a
\* fatal provider error carrying the provider's message at the initial and at
\* the poll stage alike: in particular a poll response with status "failed"
\* aborts the call with a provider error, never with a NoImageError and never
\* with a result.
C7_ProviderErrorAtBothStages ==
    /\ (/\ initialRes.ok /\ initialRes.valid
        /\ initialRes.data.status \in {"error", "failed"}
              \/ Present(initialRes.data.error))
          => pc = "thrown" /\ ~IsNoImageError(error)
    /\ \A k \in DOMAIN pollLog :
          (/\ pollLog[k].ok /\ pollLog[k].valid
           /\ pollLog[k].data.status \in {"error", "failed"}
                 \/ Present(pollLog[k].data.error))
             => /\ pc = "thrown"
                /\ ~IsNoImageError(error)
                /\ Present(ProviderMessage(pollLog[k].data)) =>
                      error.message = ProviderMessage(pollLog[k].data)

\* C8: if the initial POST returns a non-success HTTP status, the call fails
\* at once with an error that includes the response text; the body is not
\* parsed for an image and no poll request is sent.
C8_InitialTransportError ==
    (initialRes # NoResponse /\ ~initialRes.ok)
       => /\ pc = "thrown"
          /\ result = Undefined
          /\ error = Err("Error",
                         "Stable Diffusion request failed: " \o initialRes.text,
                         EmptyBody)
          /\ initialData = EmptyBody
          /\ image = Undefined
          /\ polls = 0
          /\ pollLog = << >>

C8_Witness ==
    /\ pc = "thrown"
    /\ ~initialRes.ok /\ initialRes.valid
    /\ CarriesImage(initialRes.data)
    /\ error.message = "Stable Diffusion request failed: {json}"

\* C9: if a poll response has a success HTTP status but its body is not valid
\* JSON, the call fails at once (no further poll) with the parse error whose
\* message embeds the raw text of that response body.
C9_PollParseError ==
    \A k \in DOMAIN pollLog :
       (pollLog[k].ok /\ ~pollLog[k].valid)
          => /\ k = Len(pollLog)
             /\ polls = k
             /\ pc = "thrown"
             /\ error = Err("Error",
                            "Stable Diffusion poll parse failed: " \o pollLog[k].text,
                            EmptyBody)

\* C10: parseImage returns the first present, non-empty candidate in the order
\* image, images[0], output[0], artifacts[0].base64, data[0].b64_json,
\* data[0].url; a later candidate is returned only when every earlier one is
\* absent or empty, and when all are the result is no image reference.
C10_ParsePriority ==
    parseDone =>
       LET c == Candidates(parseArg)
       IN  /\ \A i \in 1..6 :
                 (Present(c[i]) /\ \A j \in 1..(i - 1) : ~Present(c[j]))
                    => parseRet = c[i]
           /\ (\A i \in 1..6 : ~Present(c[i])) => ~Present(parseRet)
           /\ Present(parseArg.image) => parseRet = parseArg.image
           /\ (/\ Len(parseArg.artifacts.items) > 0
               /\ Present(parseArg.artifacts.items[1].base64)
               /\ ~Present(parseArg.image)
               /\ ~parseArg.images.isArray /\ ~parseArg.output.isArray
               /\ ~parseArg.data.isArray)
                 => parseRet = parseArg.artifacts.items[1].base64

C10_Witness ==
    /\ parseDone
    /\ parseArg.image = ""
    /\ parseArg.images = Arr(<<"", "https://cdn/images1.png">>)
    /\ parseArg.output = Arr(<< >>)
    /\ Len(parseArg.artifacts.items) = 2
    /\ parseArg.artifacts.items[1].base64 = ""
    /\ Len(parseArg.data.items) = 2
    /\ parseArg.data.items[1].b64_json = Undefined
    /\ parseRet = "https://cdn/data0.png"

\* A string that begins with an HTTP(S) scheme.
HasHttpScheme(s) == StartsWith(s, "http://") \/ StartsWith(s, "https://")

\* C11: an extracted image reference that begins with an HTTP(S) scheme is
\* returned unchanged; every other extracted reference r is returned as
\* "data:image/png;base64," followed by r; so every result is the unchanged
\* URL or starts with "data:image/png;base64,".
C11_Normalization ==
    pc = "returned" =>
       /\ HasHttpScheme(image) => result = image
       /\ ~HasHttpScheme(image) => result = "data:image/png;base64," \o image
       /\ HasHttpScheme(result) \/ StartsWith(result, "data:image/png;base64,")

\* s.toUpperCase()
ToUpperCase(s) == MapString(s, LowerCaseLetters, UpperCaseLetters)

Blank(v) == v = Undefined \/ v = ""

\* The names of the headers every initial request carries.
FixedHeaderNames == {"Content-Type", "Accept"}

\* C12: the initial request carries a credential header if and only if both
\* the API key and the header name are non-blank; the header is named by the
\* configured header name and its value is "Bearer " + key when that name
\* equals "authorization" case-insensitively and the key unchanged otherwise;
\* with a blank header name or a blank key there is no credential header.
C12_CredentialHeader ==
    built =>
       LET name == env.VITE_SD_API_KEY_HEADER
           key  == env.VITE_SD_API_KEY
           h    == request.headers
       IN  /\ \A n \in FixedHeaderNames : n \in DOMAIN h /\ h[n] = "application/json"
           /\ (Blank(name) \/ Blank(key)) => DOMAIN h = FixedHeaderNames
           /\ (~Blank(name) /\ ~Blank(key)) =>
                 /\ DOMAIN h = FixedHeaderNames \cup {name}
                 /\ h[name] = IF ToUpperCase(name) = "AUTHORIZATION"
                              THEN "Bearer " \o key
                              ELSE key

C12_Witness ==
    /\ built
    /\ env.VITE_SD_API_KEY_HEADER = "AUTHORIZATION"
    /\ "AUTHORIZATION" \in DOMAIN request.headers
    /\ request.headers["AUTHORIZATION"] = "Bearer abc123"

\* The words the specification derives from a wave parameter held in
\* hundredths: high above 1.5, low below 0.8, mid otherwise.
Word(v, high, low, mid) ==
    IF v \in 151..250 THEN high ELSE IF v \in 50..79 THEN low ELSE mid

\* C13: buildPrompt derives the intensity word from wavelength ("intense" above
\* 1.5, "subtle" below 0.8, else "moderate") and the density word from
\* amplitude ("dense" above 1.5, "sparse" below 0.8, else "flowing"); exactly
\* 1.5 and exactly 0.8 give "moderate" / "flowing"; the prompt of the request
\* embeds these words, the subject and the atom, over the whole slider grid.
C13_PromptWords ==
    LET w == args.params.wavelength
        a == args.params.amplitude
        i == Word(w, "intense", "subtle", "moderate")
        d == Word(a, "dense", "sparse", "flowing")
    IN  /\ intensity(args.params) = i
        /\ density(args.params) = d
        /\ w \in {80, 150} => intensity(args.params) = "moderate"
        /\ a \in {80, 150} => density(args.params) = "flowing"
        /\ built =>
              request.body.prompt =
                 "A " \o args.entity \o " materializing from " \o i
                   \o " quantum energy waves, " \o d
                   \o " streams of turquoise and emerald light converging around "
                   \o args.atom
                   \o " atoms. Set in a futuristic physics laboratory with holographic displays and volumetric lighting. Cinematic composition, ray-traced reflections, 8k ultra-detailed, atmospheric depth."

C13_Witness ==
    /\ built
    /\ args.params.wavelength = 150
    /\ args.params.amplitude = 75
    /\ args.atom = "Carbon"
    /\ Includes(request.body.prompt, "from moderate quantum energy waves, sparse streams")

\* C14: with a non-empty base image the single initial request goes to the
\* image-to-image endpoint with init_image = [b], b being the base image
\* unchanged if it starts with "http" or "data:" and "data:image/png;base64,"
\* + base image otherwise; with no base image it goes to the text-to-image
\* endpoint and the payload has no init_image field.
C14_EndpointSelection ==
    built =>
       LET b == args.baseImage
       IN  /\ ~Blank(b) =>
                /\ request.endpoint = SD_IMG2IMG_ENDPOINT(env)
                /\ request.body.init_image.isArray
                /\ request.body.init_image.items =
                      << IF SubSeq(b, 1, 4) = "http" \/ SubSeq(b, 1, 5) = "data:"
                         THEN b
                         ELSE "data:image/png;base64," \o b >>
           /\ Blank(b) =>
                /\ request.endpoint = SD_ENDPOINT(env)
                /\ ~request.body.init_image.isArray
           /\ request.method = "POST"

C14_Witness ==
    /\ built
    /\ args.baseImage = "iVBORw0KGgo"
    /\ env.VITE_SD_IMG2IMG_ENDPOINT = Undefined
    /\ env.VITE_SD_API_BASE_URL = Undefined
    /\ request.endpoint = "https://modelslab.com/api/v6/images/img2img"
    /\ request.body.init_image = Arr(<<"data:image/png;base64,iVBORw0KGgo">>)

\* None of the configuration variables the README names, nor the endpoint
\* overrides, is set.
Unconfigured ==
    /\ Blank(env.VITE_SD_API_BASE_URL) /\ Blank(env.VITE_SD_ENDPOINT)
    /\ Blank(env.VITE_SD_IMG2IMG_ENDPOINT) /\ Blank(env.VITE_SD_API_KEY)
    /\ Blank(env.VITE_SD_API_KEY_HEADER) /\ Blank(env.VITE_SD_MODEL)

\* C20: when none of the configuration variables is set, a generation request
\* is sent to the Pollinations.ai image API and needs no API key; a custom
\* provider endpoint is used only when the variables are set.
C20_DefaultProvider ==
    (built /\ Unconfigured) => Includes(request.endpoint, "pollinations.ai")

\* The polling loop has been entered: the call waits before its first poll
\* or has sent one.
PollingEntered == pc \in {"sleep", "awake"} \/ polls > 0

\* The initial response says "processing" and supplies a fetch_result URL.
OffersPolling(d) == d.status = "processing" /\ Present(d.fetch_result)

NoImageErrorWithoutPolling ==
    /\ pc = "thrown"
    /\ error.name = "Error"
    /\ error.message = "No image returned from Stable Diffusion. Payload: "
    /\ error.payload = initialData
    /\ polls = 0
    /\ pollLog = <<>>

\* An initial response that passes the checks made before extraction: HTTP-ok,
\* a JSON object, status neither "error" nor "failed", no non-empty error field.
InitialIsClean ==
    /\ initialRes.ok /\ initialRes.valid /\ ~initialRes.data.isNull
    /\ initialRes.data.status \notin {"error", "failed"}
    /\ NoErrorField(initialRes)

Positions(kinds) == {i \in DOMAIN events : events[i].kind \in kinds}

Requests == Positions({"initialFetch", "pollFetch"})

Settled == Positions({"response", "rejected"})

\* The requests of the call that have been sent and not yet answered.
Outstanding == Cardinality(Requests) - Cardinality(Settled)

\* C16: within one call the polls are strictly sequential: every poll request
\* is immediately preceded by a completed wait of the fixed delay 5000, which
\* itself follows the response to the previous request, so that poll k+1 is
\* sent only after the response to poll k has been received and examined; at
\* no time are two requests of the call outstanding.
C16_SequentialPolls ==
    /\ Outstanding \in {0, 1}
    /\ Cardinality(Positions({"pollFetch"})) = polls
    /\ \A i \in Positions({"pollFetch"}) :
          /\ i >= 4
          /\ events[i - 1] = Event("sleep", 5000)
          /\ events[i - 2].kind = "response"
          /\ events[i - 3].kind \in {"initialFetch", "pollFetch"}
          /\ Cardinality({j \in Requests : j < i})
                = Cardinality({j \in Settled : j < i})
    /\ \A i \in Positions({"sleep"}) :
          events[i].ms = 5000 /\ events[i - 1].kind = "response"
    /\ Cardinality(Positions({"sleep"})) = polls + (IF pc = "awake" THEN 1 ELSE 0)
    /\ pc = "fetchPoll" => Len(pollLog) = polls - 1 /\ Outstanding = 1
    /\ pc \in {"sleep", "awake"} => Len(pollLog) = polls /\ Outstanding = 0
    /\ attempt <= Len(pollLog)

C16_Witness ==
    /\ pc = "fetchPoll"
    /\ polls = 3
    /\ Len(pollLog) = 2
    /\ Len(events) = 10
    /\ events[10].kind = "pollFetch"
    /\ events[9] = Event("sleep", 5000)

\* C19: no automatic retry: the initial POST is sent exactly once, at most 6
\* poll POSTs are sent (at most 7 requests in total), and once an error
\* (transport, provider, parse, no-image) has occurred the call has ended:
\* every request it sent has been settled and it sends no further request.
C19_NoRetry ==
    /\ pc = "idle" => events = <<>>
    /\ pc # "idle" => Positions({"initialFetch"}) = {1}
    /\ Cardinality(Positions({"pollFetch"})) <= 6
    /\ Cardinality(Requests) <= 7
    /\ Cardinality(Requests) = polls + (IF pc = "idle" THEN 0 ELSE 1)
    /\ error # NoError =>
          /\ pc = "thrown"
          /\ Outstanding = 0
          /\ events[Len(events)].kind \in {"response", "rejected"}
          /\ ~ENABLED (Start \/ Wake \/ SendPoll)

C19_Witness ==
    /\ pc = "thrown"
    /\ Cardinality(Requests) = 7
    /\ events[Len(events)].kind = "rejected"
    /\ error.name = "TypeError"

\* The response the call examined last.
LastResponse == IF pollLog # <<>> THEN pollLog[Len(pollLog)] ELSE initialRes

Success == pc = "returned" /\ Present(result) /\ error = NoError

NoImageFailure == pc = "thrown" /\ result = Undefined /\ IsNoImageError(error)

\* A failure other than NoImageError, raised by a fetch that rejected or by
\* a response that is not HTTP-ok (transport), is not a JSON object (parse)
\* or reports an error (provider).
ExplicitFailure ==
    /\ pc = "thrown" /\ result = Undefined
    /\ error # NoError /\ ~IsNoImageError(error)
    /\ \/ events[Len(events)].kind = "rejected"
       \/ ~LastResponse.ok
       \/ ~LastResponse.valid
       \/ LastResponse.data.isNull
       \/ IsErrorReport(LastResponse.data)

ExactlyOneOutcome ==
    /\ Success \/ ExplicitFailure \/ NoImageFailure
    /\ ~(Success /\ ExplicitFailure)
    /\ ~(Success /\ NoImageFailure)
    /\ ~(ExplicitFailure /\ NoImageFailure)

\* C18: if every request is eventually answered and every delay eventually
\* elapses, every call eventually terminates, in exactly one of success with
\* a result, explicit failure (transport, provider, parse) or NoImageError;
\* it never sends more than 6 polls and a finished call stays finished.
C18_Termination ==
    /\ <>Finished
    /\ (pc = "sleep") ~> (pc = "fetchPoll")
    /\ (pc = "fetchPoll") ~> (Finished \/ pc = "sleep")
    /\ [](Finished => ExactlyOneOutcome)
    /\ [](polls <= 6)
    /\ [][Finished => UNCHANGED vars]_vars

C18_Witness ==
    /\ Success
    /\ polls = 6
    /\ Len(events) = 20
    /\ result = "https://cdn/img.png"

\* What the fetches of a call have settled with so far, replayed on a call
\* that runs alone with the same arguments and the same seed.
RECURSIVE Replay(_, _)
Replay(st, k) ==
    IF k = 0
    THEN IF st.request = NoRequest
         THEN IdleCall(st.args)
         ELSE Started(IdleCall(st.args), st.request.body.seed)
    ELSE LET before == Replay(st, k - 1)
             x      == st.inbox[k]
         IN  IF x = Rejection
             THEN AfterRejection(IF k = 1 THEN before
                                 ELSE [before EXCEPT !.polls = @ + 1])
             ELSE IF k = 1
             THEN AfterInitial(before, x)
             ELSE AfterPoll([before EXCEPT !.polls = @ + 1], x, before.attempt)

Alone(st) == Replay(st, Len(st.inbox))

CallFinished(st) == st.pc \in {"returned", "thrown"}

\* The part of a call's state its own responses determine at any moment.
Determined(st) ==
    [request |-> st.request, initialData |-> st.initialData,
     lastData |-> st.lastData, image |-> st.image, attempt |-> st.attempt,
     result |-> st.result, error |-> st.error, inbox |-> st.inbox,
     finished |-> CallFinished(st)]

ConfiguredKey == IF Blank(env.VITE_SD_API_KEY) THEN "" ELSE env.VITE_SD_API_KEY

\* What the specification says of every poll request but its URL.
PollRequestCarries(q) ==
    /\ q.method = "POST"
    /\ q.body.key = ConfiguredKey
    /\ q.body.request_id = initialRes.data.id
    /\ q.headers = [n \in FixedHeaderNames |-> "application/json"]

\* C23 as stated: every poll attempt is a POST to the fetch_result URL of the
\* initial response, carrying the credential and, as request_id, the id of
\* the initial response; URL and request_id are the same at every attempt,
\* whatever the poll responses contain.
C23_Original ==
    \A i \in DOMAIN pollRequests :
       /\ PollRequestCarries(pollRequests[i])
       /\ pollRequests[i].url = initialRes.data.fetch_result
       /\ pollRequests[i] = pollRequests[1]

\* C23 amended: the same, the target being the fetch_result URL itself when
\* no key is configured or the URL already contains "key=", and otherwise the
\* fetch_result URL with the URI-encoded key appended as query parameter key
\* (after "&" if the URL contains "?", after "?" if not).
C23_PollRequest ==
    /\ Len(pollRequests) = polls
    /\ \A i \in DOMAIN pollRequests :
          LET f == initialRes.data.fetch_result
              q == pollRequests[i]
          IN  /\ PollRequestCarries(q)
              /\ q = pollRequests[1]
              /\ (ConfiguredKey = "" \/ \E k \in 1..(Len(f) - 3) : SubSeq(f, k, k + 3) = "key=")
                    => q.url = f
              /\ (ConfiguredKey = "a/b c1" /\ f = "https://p/poll")
                    => q.url = "https://p/poll?key=a%2Fb%20c1"
              /\ (ConfiguredKey = "a/b c1" /\ f = "https://p/poll?id=7")
                    => q.url = "https://p/poll?id=7&key=a%2Fb%20c1"

C23_Witness ==
    /\ polls = 3
    /\ Len(pollLog) = 2
    /\ pollLog[2].data.id = "r2"
    /\ pollRequests[3].url = "https://p/poll?id=7&key=a%2Fb%20c1"
    /\ pollRequests[3].body = [key |-> "a/b c1", request_id |-> "r1"]

\* The message the specification gives a provider error: message, else error,
\* else the fixed text of the polling stage.
PollErrorMessage(d) ==
    IF Present(d.message) THEN d.message
    ELSE IF Present(d.error) THEN d.error
    ELSE "Stable Diffusion polling error"

ReportsPollError(r) ==
    r.ok /\ r.valid /\ (r.data.status = "error" \/ Present(r.data.error))

\* C24: a poll response with status "error" or a non-empty error field fails
\* the call immediately with that response's message (message, else error):
\* it is the last response of the call, no further poll is sent although
\* attempts remain, and the call does not succeed even when the response
\* carries an extractable image.
C24_PollProviderError ==
    \A i \in DOMAIN pollLog :
       ReportsPollError(pollLog[i]) =>
          /\ i = Len(pollLog)
          /\ polls = i
          /\ pc = "thrown"
          /\ result = Undefined
          /\ error.name = "Error"
          /\ error.message = PollErrorMessage(pollLog[i].data)
          /\ ~ENABLED (Wake \/ SendPoll)

C24_Witness ==
    /\ pc = "thrown"
    /\ Len(pollLog) = 2
    /\ pollLog[2].data.error = "quota exceeded"
    /\ pollLog[2].data.status = "processing"
    /\ CarriesImage(pollLog[2].data)
    /\ error.message = "quota exceeded"

\* C21: a base image (selfie file data or selfie URL) is sent to the image API
\* by handleCollapse only if the consent checkbox is checked at the moment of
\* sending; so no generation call is started with a base image while
\* selfieConsent is false, whatever was entered earlier.
C21_ConsentAtSend ==
    \A i \in DOMAIN generating :
       generating[i].baseImage # Undefined => generating[i].consent

\* C25: the base image handleCollapse passes to generateQuantumManifestation
\* is the one attached when the collapse is triggered: the trimmed selfie URL
\* if non-empty, otherwise the uploaded selfie data, otherwise none.
C25_BaseImageAtTrigger ==
    \A i \in DOMAIN generating :
       generating[i].baseImage = generating[i].attached

\* A step in which a generation call ends with success, ends with failure,
\* or is started.
SuccessStep == Len(generating') < Len(generating) /\ usageCount' # usageCount

FailureStep == Len(generating') < Len(generating) /\ usageCount' = usageCount

SendStep == Len(generating') > Len(generating)

\* C22: the selfie is deleted immediately after a successful render: in the
\* state a successful generation leads to, selfieData is null, selfieUrl is
\* empty and handleCollapse holds neither; and no later generation call is
\* started with the base image of that generation unless it has been
\* attached again (a URL entered, a file read completed) since.
C22_SelfieDropped ==
    /\ [][SuccessStep =>
            /\ selfieData' = Null
            /\ selfieUrl' = ""
            /\ handleCollapse'.selfieData = Null
            /\ handleCollapse'.selfieUrl = ""
            /\ state'.isCollapsed]_vars
    /\ [](\A i \in DOMAIN generating :
            generating[i].baseImage # Undefined => generating[i].baseImage # dropped)

C22_Witness ==
    /\ state.isCollapsed
    /\ dropped = "https://me/selfie.jpg"
    /\ selfieUrl = ""
    /\ selfieData = Null
    /\ selfieConsent

\* C26: while the user is not subscribed, a generation is started only if
\* usageCount < 5; with usageCount >= 5 no step starts a generation, sets
\* isCollapsing, or changes usageCount or the subject; so usageCount never
\* exceeds 5 while the user is not subscribed.
C26_FreeTierGate ==
    /\ [](\A i \in DOMAIN generating :
            ~generating[i].subscribed => generating[i].usage < 5)
    /\ [](~isSubscribed => usageCount <= 5)
    /\ [](handleCollapse.usageCount = usageCount
            /\ handleCollapse.isSubscribed = isSubscribed)
    /\ [][(~isSubscribed /\ usageCount >= 5) =>
            /\ generating' = <<>>
            /\ ~state'.isCollapsing
            /\ usageCount' = usageCount
            /\ selectedEntity' = selectedEntity]_vars

C26_Witness ==
    /\ ~isSubscribed
    /\ usageCount = 5
    /\ showPaywall
    /\ isStarted /\ ~pendingAutoCollapse
    /\ ~state.isCollapsed /\ ~state.isCollapsing
    /\ generating = <<>>

\* C27 as stated: usageCount changes only by +1 and only in the step in
\* which a generation succeeds, and the value stored under quantum_usage
\* eventually equals usageCount after every change.
C27_Original ==
    /\ [][usageCount' # usageCount =>
            /\ usageCount' = usageCount + 1
            /\ Len(generating') < Len(generating)]_vars
    /\ (localStorage.quantum_usage # NumberToString(usageCount))
          ~> (localStorage.quantum_usage = NumberToString(usageCount))

\* C27: once the stored count has been loaded on mount, usageCount changes
\* only by +1 and only in the step in which a generation succeeds (a
\* failure, a paywall refusal, resetExperiment, handleStart and
\* simulateCheckout leave it unchanged), and whenever the value stored under
\* quantum_usage differs from usageCount it eventually equals it.
C27_UsageCount ==
    /\ [][(mounted /\ usageCount' # usageCount) =>
            /\ usageCount' = usageCount + 1
            /\ Len(generating') < Len(generating)
            /\ state'.isCollapsed /\ ~state.isCollapsed
            /\ state'.collapsedImage # Null]_vars
    /\ (localStorage.quantum_usage # NumberToString(usageCount))
          ~> (localStorage.quantum_usage = NumberToString(usageCount))

C27_Witness ==
    /\ usageCount = 5
    /\ localStorage.quantum_usage = "4"
    /\ state.isCollapsed
    /\ generating = <<>>

\* C28: at most one generation call is in flight at any time: every call is
\* started with none in flight, by the button or by the auto-collapse effect,
\* and isCollapsing holds while one is in flight.
C28_OneGeneration ==
    /\ Len(generating) <= 1
    /\ \A i \in DOMAIN generating : generating[i].inFlight = 0
    /\ generating # <<>> => state.isCollapsing /\ ~ENABLED ClickCollapse
    /\ generating # <<>> => ~ENABLED AutoCollapseEffect

C28_Witness ==
    /\ Len(generating) = 1
    /\ state.isCollapsing
    /\ selectedAtom = "Carbon"
    /\ generating[1].atom = "Hydrogen"

\* C29: in every reachable state isCollapsed implies that collapsedImage is a
\* non-empty string and explanation is not null, and isCollapsing and
\* isCollapsed are never both true.
C29_ResultHasImage ==
    /\ state.isCollapsed =>
          /\ state.collapsedImage \notin {Null, Undefined, ""}
          /\ state.explanation # Null
    /\ ~(state.isCollapsing /\ state.isCollapsed)

C29_Witness ==
    /\ state.isCollapsed
    /\ state.collapsedImage = "https://cdn/img.png"
    /\ state.explanation # Null
    /\ ~state.isCollapsing

\* C30: the step in which a generation fails ends with isCollapsing false and
\* error a message starting with "Quantum decoherence failed", and leaves
\* isCollapsed, collapsedImage, explanation, the attached selfie data and URL
\* and usageCount unchanged; the step that starts the next generation leaves
\* error null.
C30_FailureState ==
    /\ [][FailureStep =>
            /\ ~state'.isCollapsing
            /\ state'.error # Null
            /\ SubSeq(state'.error, 1, 26) = "Quantum decoherence failed"
            /\ state'.isCollapsed = state.isCollapsed
            /\ state'.collapsedImage = state.collapsedImage
            /\ state'.explanation = state.explanation
            /\ selfieData' = selfieData
            /\ selfieUrl' = selfieUrl
            /\ usageCount' = usageCount]_vars
    /\ [][SendStep => state'.error = Null /\ state'.isCollapsing]_vars

C30_Witness ==
    /\ state.error =
          "Quantum decoherence failed: Stable Diffusion request failed: Service Unavailable"
    /\ ~state.isCollapsing
    /\ ~state.isCollapsed
    /\ selfieData = "data:image/png;base64,AAAA"
    /\ generating = <<>>

====
